---- MODULE Spec2Model ----
(***************************************************************************)
(* FoxPilot content script (extension/content/content.js): the ref system, *)
(* the accessibility snapshot, the semantic locators and the selector      *)
(* taking actions, modelled over a small live document.                    *)
(*                                                                         *)
(* Text is kept as strings; trim, toLowerCase, includes, replace, slice   *)
(* and template literals are computed character by character.              *)
(***************************************************************************)
EXTENDS Integers, Sequences, FiniteSets, TLC

VARIABLES
  page,          \* which document is loaded
  removed,       \* elements whose subtree has been removed from the document
  style,         \* per element: "", "none", "hidden" or "opacity0"
  value,         \* per element: the value property
  checked,       \* elements whose checked property is true
  mutations,     \* how many changes separate the document from the one loaded
  refToElement,  \* the Map of ref ids to elements
  refCounter,    \* the ref counter
  pending,       \* handlers suspended in a sleep
  last,          \* the response a handler has just produced, until it is sent
  before,        \* the registry as the handler that produced it found it
  host,          \* the native host: its connections, pending requests and output
  client         \* a FoxPilotClient: its socket, pending requests and promises

vars == <<page, removed, style, value, checked, mutations, refToElement, refCounter, pending,
          last, before, host, client>>

\* the processes outside the content script
transportVars == <<host, client>>
domVars == <<page, removed, style, value, checked, mutations>>

\* ------------------------------------------------------------------ bounds
NumNodes == 4
MaxRefs == 2
MaxMutations == 1
MaxPending == 1
MaxIndex == 1
MaxDepth == 1
MaxActionRef == 2

\* -------------------------------------------------------- program constants
NameTextLimit == 100
ValueLimit == 50
TextResultLimit == 100

\* ----------------------------------------------------------------- strings
\* JavaScript null / undefined (an absent attribute, an omitted parameter)
Null == "<null>"

\* a const binding: With([x \in {v} |-> body]) is body with x bound to the value of v
With(binding) == binding[CHOOSE x \in DOMAIN binding : TRUE]

\* JavaScript truthiness of a string-or-null value
Truthy(s) == s # Null /\ s # ""

CharAt(s, i) == SubSeq(s, i, i)

RECURSIVE TrimStart(_)
TrimStart(s) ==
  IF s # "" /\ Head(s) = " " THEN TrimStart(Tail(s)) ELSE s

RECURSIVE TrimEnd(_)
TrimEnd(s) ==
  IF s # "" /\ CharAt(s, Len(s)) = " " THEN TrimEnd(SubSeq(s, 1, Len(s) - 1)) ELSE s

Trim(s) == TrimEnd(TrimStart(s))

LowerChar(c) ==
  CASE c = "E" -> "e"
    [] c = "H" -> "h"
    [] c = "M" -> "m"
    [] c = "N" -> "n"
    [] c = "S" -> "s"
    [] c = "W" -> "w"
    [] OTHER -> c

RECURSIVE ToLowerCase(_)
ToLowerCase(s) ==
  IF s = "" THEN "" ELSE LowerChar(Head(s)) \o ToLowerCase(Tail(s))

\* String.prototype.indexOf, 1-based: the first occurrence of t in s, 0 if none
RECURSIVE IndexFrom(_, _, _)
IndexFrom(s, t, i) ==
  IF i + Len(t) - 1 > Len(s) THEN 0
  ELSE IF SubSeq(s, i, i + Len(t) - 1) = t THEN i
  ELSE IndexFrom(s, t, i + 1)

IndexOf(s, t) == IndexFrom(s, t, 1)

Includes(s, t) == IndexOf(s, t) # 0

StartsWith(s, t) == Len(s) >= Len(t) /\ SubSeq(s, 1, Len(t)) = t

\* s.replace(t, ''): the first occurrence of t removed
ReplaceFirstWithEmpty(s, t) ==
  With([i \in {IndexOf(s, t)} |->
    IF i = 0 THEN s ELSE SubSeq(s, 1, i - 1) \o SubSeq(s, i + Len(t), Len(s))])

\* s.slice(0, n)
Slice(s, n) == SubSeq(s, 1, IF Len(s) < n THEN Len(s) ELSE n)

Digit(d) == CharAt("0123456789", d + 1)

\* the decimal text of a non-negative integer, as a template literal prints it
RECURSIVE NumberToString(_)
NumberToString(n) ==
  IF n < 10 THEN Digit(n) ELSE NumberToString(n \div 10) \o Digit(n % 10)

\* Array.prototype.join
RECURSIVE JoinWith(_, _)
JoinWith(parts, sep) ==
  IF parts = <<>> THEN ""
  ELSE IF Len(parts) = 1 THEN parts[1]
  ELSE parts[1] \o sep \o JoinWith(Tail(parts), sep)

\* String.prototype.split on a one-character separator
RECURSIVE SplitOn(_, _)
SplitOn(s, c) ==
  With([i \in {IndexOf(s, c)} |->
    IF i = 0 THEN <<s>>
    ELSE <<SubSeq(s, 1, i - 1)>> \o SplitOn(SubSeq(s, i + 1, Len(s)), c)])

\* '  '.repeat(n)
RECURSIVE Repeat(_, _)
Repeat(s, n) == IF n = 0 THEN "" ELSE s \o Repeat(s, n - 1)

RECURSIVE Flatten(_)
Flatten(ss) == IF ss = <<>> THEN <<>> ELSE Head(ss) \o Flatten(Tail(ss))

RECURSIVE SelectSeqBy(_, _)
SelectSeqBy(s, keep) ==
  IF s = <<>> THEN <<>>
  ELSE (IF Head(s) \in keep THEN <<Head(s)>> ELSE <<>>) \o SelectSeqBy(Tail(s), keep)

Range(s) == {s[i] : i \in 1..Len(s)}


\* ---------------------------------------------------------------- document
\* Elements are numbered 1..NumNodes; 1 is document.body and the children of
\* n are 2n and 2n+1, in that order.
Nodes == 1..NumNodes
Body == 1

Blank(tag) ==
  [tag |-> tag, role |-> Null, ariaLabel |-> Null, labelledBy |-> Null, id |-> Null,
   for |-> Null, title |-> Null, placeholder |-> Null, alt |-> Null, type |-> Null,
   href |-> Null, tabindex |-> Null, ariaLevel |-> Null, ariaChecked |-> Null,
   ariaDisabled |-> Null, ariaRequired |-> Null, multiple |-> FALSE, disabled |-> FALSE,
   required |-> FALSE, onclick |-> FALSE, editable |-> FALSE, text |-> ""]

\* <body>
BodyElement == Blank("body")

\* <body tabindex="0">
FocusableBody == [Blank("body") EXCEPT !.tabindex = "0"]

\* <button>Save</button>
SaveButton == [Blank("button") EXCEPT !.text = "Save"]

\* <input id="a" aria-label="Email" placeholder="Mail" required>
EmailInput ==
  [Blank("input") EXCEPT !.id = "a", !.ariaLabel = "Email", !.placeholder = "Mail",
                         !.required = TRUE]

\* <div role="button">Hello </div>
RoleButtonDiv == [Blank("div") EXCEPT !.role = "button", !.text = "Hello "]

\* <input type="checkbox" id="b" title="Save me">
SaveCheckbox == [Blank("input") EXCEPT !.type = "checkbox", !.id = "b", !.title = "Save me"]

\* <label for="b">Name</label>
NameLabel == [Blank("label") EXCEPT !.for = "b", !.text = "Name"]

\* <h2>News</h2>
NewsHeading == [Blank("h2") EXCEPT !.text = "News"]

\* <div></div>
PlainDiv == Blank("div")

\* The documents: the elements 2, 3, 4, ... of each (the list repeats).  In the
\* first, body holds the div and the button, and the div holds the input; in
\* the second, a body that takes the focus holds a plain div and the heading, and
\* the div holds the input.
PageBodies == <<BodyElement, FocusableBody>>

PageElements ==
  << <<RoleButtonDiv, SaveButton, EmailInput, SaveCheckbox, NameLabel, NewsHeading>>,
     <<PlainDiv, NewsHeading, EmailInput, SaveCheckbox, NameLabel, SaveButton>> >>

Pages == 1..Len(PageElements)

\* <div>Hello </div> and, inside it, <span>World</span>
HelloDiv == [Blank("div") EXCEPT !.text = "Hello "]
WorldSpan == [Blank("span") EXCEPT !.text = "World"]

\* <label for="b">Name </label> around <input id="b">, and a second
\* <label for="b">Surname</label>
NameLabelFor == [Blank("label") EXCEPT !.for = "b", !.text = "Name "]
PlainInput == [Blank("input") EXCEPT !.id = "b"]
SurnameLabel == [Blank("label") EXCEPT !.for = "b", !.text = "Surname"]

\* <button aria-label="Home">News</button>
HomeButton == [Blank("button") EXCEPT !.ariaLabel = "Home", !.text = "News"]

\* <input aria-label=" " title="Web" placeholder="Mail">
BlankLabelInput ==
  [Blank("input") EXCEPT !.ariaLabel = " ", !.title = "Web", !.placeholder = "Mail"]

\* <img title="Web" alt="Sea">
TitledImage == [Blank("img") EXCEPT !.title = "Web", !.alt = "Sea"]

\* <label for="c"></label> around <input title="Web">, and <input id="c" placeholder="Mail">
EmptyLabel == [Blank("label") EXCEPT !.for = "c"]
TitledInput == [Blank("input") EXCEPT !.title = "Web"]
MailInput == [Blank("input") EXCEPT !.id = "c", !.placeholder = "Mail"]

\* <a>News</a>, <a href="/news">News</a>, <input type="checkbox">
PlainAnchor == [Blank("a") EXCEPT !.text = "News"]
NewsLink == [Blank("a") EXCEPT !.href = "/news", !.text = "News"]
PlainCheckbox == [Blank("input") EXCEPT !.type = "checkbox"]

\* <section aria-label="Sea"> around <select multiple>, and <section>News</section>
SeaSection == [Blank("section") EXCEPT !.ariaLabel = "Sea"]
MultiSelect == [Blank("select") EXCEPT !.multiple = TRUE]
PlainSection == [Blank("section") EXCEPT !.text = "News"]

\* <button role="">Save</button> around <select>, and <button role="link">Save\nnow</button>
EmptyRoleButton == [Blank("button") EXCEPT !.role = "", !.text = "Save"]
PlainSelect == Blank("select")
LinkRoleButton == [Blank("button") EXCEPT !.role = "link", !.text = "Save\nnow"]

\* The documents the resolvers and locators are exercised on, numbered after
\* Pages: the elements 2, 3, 4, ... of each (the list repeats).  The last one
\* is <button>Save<span>World</span></button> followed by
\* <div role="button">Hello </div>.
ResolverPageElements ==
  << <<HelloDiv, SaveButton, WorldSpan, NewsHeading>>,
     <<NameLabelFor, SurnameLabel, PlainInput, SaveButton>>,
     <<HomeButton, BlankLabelInput, TitledImage, NewsHeading>>,
     <<EmptyLabel, MailInput, TitledInput, SaveButton>>,
     <<PlainAnchor, NewsLink, PlainCheckbox, NewsHeading>>,
     <<SeaSection, PlainSection, MultiSelect, SaveButton>>,
     <<EmptyRoleButton, LinkRoleButton, PlainSelect, NewsHeading>>,
     <<SaveButton, RoleButtonDiv, WorldSpan, NewsHeading>> >>

ResolverPages == (Len(PageElements) + 1)..(Len(PageElements) + Len(ResolverPageElements))

\* the elements of the page loaded, but for body
Elements ==
  IF page \in Pages THEN PageElements[page]
  ELSE ResolverPageElements[page - Len(PageElements)]

El(n) ==
  IF n = Body THEN (IF page \in Pages THEN PageBodies[page] ELSE BodyElement)
  ELSE Elements[((n - 2) % Len(Elements)) + 1]

\* element.children (a removed element is no longer a child of its parent)
Children(n) ==
  SelectSeqBy(<<2 * n, 2 * n + 1>>, Nodes \ removed)

\* element.parentElement, 0 for none
Parent(n) == IF n = Body \/ n \in removed THEN 0 ELSE n \div 2

RECURSIVE AncestorsOrSelf(_)
AncestorsOrSelf(n) == IF n = 0 THEN {} ELSE {n} \cup AncestorsOrSelf(Parent(n))

\* element.isConnected
Attached(n) == Body \in AncestorsOrSelf(n)

RECURSIVE PreOrder(_)
PreOrder(n) ==
  With([kids \in {Children(n)} |->
    <<n>> \o Flatten([i \in 1..Len(kids) |-> PreOrder(kids[i])])])

\* the elements of the document in document order (what querySelectorAll('*') walks)
DocOrder == PreOrder(Body)

\* element.textContent
RECURSIVE textContent(_)
textContent(n) ==
  With([kids \in {Children(n)} |->
    El(n).text \o JoinWith([i \in 1..Len(kids) |-> textContent(kids[i])], "")])

HasValueProperty(n) == El(n).tag \in {"input", "textarea", "select", "button", "option"}

\* element.value (undefined where the element has no such property)
ValueOf(n) == IF HasValueProperty(n) THEN value[n] ELSE Null

\* element.type
TypeOf(n) ==
  CASE El(n).tag = "input" -> (IF Truthy(El(n).type) THEN El(n).type ELSE "text")
    [] El(n).tag = "button" -> "submit"
    [] El(n).tag = "textarea" -> "textarea"
    [] El(n).tag = "select" -> (IF El(n).multiple THEN "select-multiple" ELSE "select-one")
    [] OTHER -> Null

\* element.placeholder (only inputs and textareas reflect the attribute)
PlaceholderOf(n) ==
  IF El(n).tag \in {"input", "textarea"}
  THEN (IF El(n).placeholder = Null THEN "" ELSE El(n).placeholder)
  ELSE Null

\* element.checked
CheckedOf(n) == El(n).tag = "input" /\ n \in checked

First(seq) == IF seq = <<>> THEN 0 ELSE seq[1]

\* document.getElementById, 0 for null
getElementById(id) ==
  First(SelectSeqBy(DocOrder, {n \in Nodes : El(n).id = id}))

\* document.querySelector(`label[for="${id}"]`), 0 for null
LabelFor(id) ==
  First(SelectSeqBy(DocOrder, {n \in Nodes : El(n).tag = "label" /\ El(n).for = id}))

\* element.closest('label'), 0 for null
RECURSIVE ClosestLabel(_)
ClosestLabel(n) ==
  IF n = 0 THEN 0 ELSE IF El(n).tag = "label" THEN n ELSE ClosestLabel(Parent(n))

\* document.querySelector for the selectors in use: "#id" and a tag name; 0 for null
\* the DOMException document.querySelector throws for a string that is no selector
SyntaxError == -1

\* the selectors of the model are #id and tag names
IsSelector(selector) ==
  selector # "" /\ IndexOf("#abcdefghijklmnopqrstuvwxyz", Head(selector)) # 0

\* DOMException.code of a SyntaxError (SYNTAX_ERR)
SyntaxErrorCode == "12"

querySelector(selector) ==
  IF ~IsSelector(selector) THEN SyntaxError
  ELSE IF StartsWith(selector, "#")
  THEN First(SelectSeqBy(DocOrder, {n \in Nodes : El(n).id = Tail(selector)}))
  ELSE First(SelectSeqBy(DocOrder, {n \in Nodes : El(n).tag = selector}))

\* ------------------------------------------------------------- visibility
\* getComputedStyle(element).display: not inherited
ComputedDisplay(n) == IF style[n] = "none" THEN "none" ELSE "block"

\* getComputedStyle(element).visibility: inherited from the ancestors
ComputedVisibility(n) ==
  IF \E a \in AncestorsOrSelf(n) : style[a] = "hidden" THEN "hidden" ELSE "visible"

\* getComputedStyle(element).opacity: not inherited
ComputedOpacity(n) == IF style[n] = "opacity0" THEN "0" ELSE "1"

\* getBoundingClientRect() has an area: the element is in the document and
\* neither it nor an ancestor is display:none
RectHasArea(n) ==
  Attached(n) /\ \A a \in AncestorsOrSelf(n) : style[a] # "none"

isElementVisible(n) ==
  /\ ComputedDisplay(n) # "none"
  /\ ComputedVisibility(n) # "hidden"
  /\ ComputedOpacity(n) # "0"
  /\ RectHasArea(n)

\* ------------------------------------------------------------ ref system
EmptyMap == [r \in {} |-> 0]

\* a clearRefs that empties the Map and keeps the counter
clearRefs_keepCounter(reg) == [map |-> EmptyMap, counter |-> reg.counter]

\* a clearRefs that leaves the registry as it is
clearRefs_keep(reg) == reg

\* clearRefs(): the registry as a record of the Map and the counter
clearRefs(reg) == [map |-> EmptyMap, counter |-> 0]

\* a generateRef that reads the counter without incrementing it
generateRef_stuck(reg) ==
  [ref |-> "@e" \o NumberToString(reg.counter + 1), reg |-> reg]

\* generateRef(): `@e${++refCounter}`
generateRef(reg) ==
  [ref |-> "@e" \o NumberToString(reg.counter + 1),
   reg |-> [reg EXCEPT !.counter = reg.counter + 1]]

\* a set that drops every other entry
MapSet_alone(reg, ref, element) ==
  [reg EXCEPT !.map = [r \in {ref} |-> element]]

\* refToElement.set(ref, element)
MapSet(reg, ref, element) ==
  [reg EXCEPT !.map = [r \in (DOMAIN reg.map) \cup {ref} |->
                         IF r = ref THEN element ELSE reg.map[r]]]

\* an allocation that binds the new ref to document.body
Allocate_body(reg, element) ==
  With([g \in {generateRef(reg)} |->
    [ref |-> g.ref, reg |-> MapSet(g.reg, g.ref, Body)]])

\* an allocation that clears the registry first
Allocate_fresh(reg, element) ==
  With([g \in {generateRef(clearRefs(reg))} |->
    [ref |-> g.ref, reg |-> MapSet(g.reg, g.ref, element)]])

\* const ref = generateRef(); refToElement.set(ref, element);
Allocate(reg, element) ==
  With([g \in {generateRef(reg)} |->
    [ref |-> g.ref, reg |-> MapSet(g.reg, g.ref, element)]])

\* s is one or more decimal digits
RECURSIVE IsDigits(_)
IsDigits(s) ==
  /\ s # ""
  /\ IndexOf("0123456789", SubSeq(s, 1, 1)) # 0
  /\ (Len(s) > 1 => IsDigits(SubSeq(s, 2, Len(s))))

\* s has the form generateRef gives a ref: "@e" and a sequence number
RefForm(s) == StartsWith(s, "@e") /\ IsDigits(SubSeq(s, 3, Len(s)))

\* a getElement that looks up the registry only for strings of ref form
getElement_refForm(selector) ==
  IF RefForm(selector)
  THEN (IF selector \in DOMAIN refToElement THEN refToElement[selector] ELSE 0)
  ELSE querySelector(selector)

\* a getElement that resolves an unknown ref to document.body
getElement_body(selector) ==
  IF StartsWith(selector, "@")
  THEN (IF selector \in DOMAIN refToElement THEN refToElement[selector] ELSE Body)
  ELSE querySelector(selector)

\* getElement(selector), 0 for null
getElement(selector) ==
  IF StartsWith(selector, "@")
  THEN (IF selector \in DOMAIN refToElement THEN refToElement[selector] ELSE 0)
  ELSE querySelector(selector)

Registry == [map |-> refToElement, counter |-> refCounter]

\* the registry of a freshly loaded content script
EmptyRegistry == [map |-> EmptyMap, counter |-> 0]

\* ---------------------------------------------------------- role and name
InputTypeRole(type) ==
  CASE type \in {"button", "image", "reset", "submit"} -> "button"
    [] type = "checkbox" -> "checkbox"
    [] type \in {"email", "tel", "text", "url"} -> "textbox"
    [] type = "number" -> "spinbutton"
    [] type = "radio" -> "radio"
    [] type = "range" -> "slider"
    [] type = "search" -> "searchbox"
    [] OTHER -> "textbox"

\* IMPLICIT_ROLES[tagName](element), Null where the table has no entry
IMPLICIT_ROLES(n) ==
  LET e == El(n) tag == e.tag
  IN CASE tag = "a" -> (IF e.href # Null THEN "link" ELSE Null)
       [] tag = "article" -> "article"
       [] tag = "aside" -> "complementary"
       [] tag \in {"button", "summary"} -> "button"
       [] tag = "datalist" -> "listbox"
       [] tag = "details" -> "group"
       [] tag = "dialog" -> "dialog"
       [] tag = "footer" -> "contentinfo"
       [] tag = "form" -> "form"
       [] tag \in {"h1", "h2", "h3", "h4", "h5", "h6"} -> "heading"
       [] tag = "header" -> "banner"
       [] tag = "hr" -> "separator"
       [] tag = "img" -> (IF Truthy(e.alt) THEN "img" ELSE "presentation")
       [] tag = "input" -> InputTypeRole(IF Truthy(e.type) THEN e.type ELSE "text")
       [] tag = "li" -> "listitem"
       [] tag = "main" -> "main"
       [] tag = "menu" -> "menu"
       [] tag = "nav" -> "navigation"
       [] tag \in {"ol", "ul"} -> "list"
       [] tag = "option" -> "option"
       [] tag = "progress" -> "progressbar"
       [] tag = "section" ->
            (IF e.ariaLabel # Null \/ e.labelledBy # Null THEN "region" ELSE Null)
       [] tag = "select" -> (IF e.multiple THEN "listbox" ELSE "combobox")
       [] tag = "table" -> "table"
       [] tag \in {"tbody", "tfoot", "thead"} -> "rowgroup"
       [] tag = "td" -> "cell"
       [] tag = "textarea" -> "textbox"
       [] tag = "th" -> "columnheader"
       [] tag = "tr" -> "row"
       [] OTHER -> Null

INTERACTIVE_ROLES ==
  {"button", "checkbox", "combobox", "link", "listbox", "menu", "menuitem",
   "menuitemcheckbox", "menuitemradio", "option", "radio", "searchbox", "slider",
   "spinbutton", "switch", "tab", "textbox", "treeitem"}

getRole(n) ==
  IF Truthy(El(n).role) THEN El(n).role ELSE IMPLICIT_ROLES(n)

\* the aria-labelledby step: the trimmed texts of the referenced elements
LabelledByTexts(n) ==
  With([ids \in {SplitOn(El(n).labelledBy, " ")} |->
    With([texts \in {[i \in 1..Len(ids) |->
            With([el \in {getElementById(ids[i])} |->
              IF el = 0 THEN Null ELSE Trim(textContent(el))])]} |-> SelectSeqBy(texts, {t \in Range(texts) : Truthy(t)})])])

\* labelText.replace(elementText, '').trim() || labelText
WrappedLabelName(labelText, elementText) ==
  With([rest \in {Trim(ReplaceFirstWithEmpty(labelText, elementText))} |->
    IF rest # "" THEN rest ELSE labelText])

\* lines 271-292: title, placeholder, alt, text content, value
NameFromOwn(n, e, elementText) ==
  IF Truthy(e.title) THEN Trim(e.title)
  ELSE IF Truthy(e.placeholder) THEN Trim(e.placeholder)
  ELSE IF Truthy(e.alt) THEN Trim(e.alt)
  ELSE IF elementText # "" /\ Len(elementText) <= NameTextLimit THEN elementText
  ELSE IF HasValueProperty(n) /\ Truthy(value[n]) THEN Slice(value[n], ValueLimit)
  ELSE ""

\* lines 257-269: the label element for the id, then the wrapping label
NameFromLabels(n, e) ==
  With([label \in {IF Truthy(e.id) THEN LabelFor(e.id) ELSE 0} |->
    IF label # 0 THEN Trim(textContent(label))
    ELSE With([parentLabel \in {ClosestLabel(n)} |->
           With([elementText \in {Trim(textContent(n))} |->
             IF parentLabel # 0
             THEN WrappedLabelName(Trim(textContent(parentLabel)), elementText)
             ELSE NameFromOwn(n, e, elementText)])])])

getAccessibleName(n) ==
  With([e \in {El(n)} |->
    IF Truthy(e.ariaLabel) THEN Trim(e.ariaLabel)
    ELSE With([labels \in {IF Truthy(e.labelledBy) THEN LabelledByTexts(n) ELSE <<>>} |->
           IF labels # <<>> THEN JoinWith(labels, " ") ELSE NameFromLabels(n, e)])])

isInteractive(n) ==
  \/ With([role \in {getRole(n)} |-> Truthy(role) /\ role \in INTERACTIVE_ROLES])
  \/ El(n).onclick
  \/ El(n).tabindex = "0"
  \/ El(n).editable

\* ---------------------------------------------------------------- snapshot
\* A projection result is null, an array of nodes or one node.
NullResult == [kind |-> "null"]
ArrayResult(items) == [kind |-> "array", items |-> items]
NodeResult(node) == [kind |-> "node", node |-> node]

\* children.length ? children : null
ChildrenOrNull(children) ==
  IF children # <<>> THEN ArrayResult(children) ELSE NullResult

NoField == [k \in {} |-> 0]
Field(present, key, v) == IF present THEN [k \in {key} |-> v] ELSE NoField

\* the digit of an h1..h6 tag, tagName.match(/h(\d)/i)?.[1]
HeadingDigit(tag) ==
  IF Len(tag) >= 2 /\ Head(tag) = "h" /\ IndexOf("0123456789", CharAt(tag, 2)) # 0
  THEN CharAt(tag, 2) ELSE Null

\* parseInt of a string of digits (NaN, modelled as 0, where it does not start with one)
RECURSIVE ParseDigits(_, _)
ParseDigits(s, acc) ==
  IF s = "" \/ IndexOf("0123456789", Head(s)) = 0 THEN acc
  ELSE ParseDigits(Tail(s), 10 * acc + IndexOf("0123456789", Head(s)) - 1)

parseInt(s) == ParseDigits(TrimStart(s), 0)

\* the object built at content.js lines 362-391
MakeNode(n, ref, role, name, children) ==
  LET e == El(n)
      level == IF Truthy(e.ariaLevel) THEN e.ariaLevel ELSE HeadingDigit(e.tag)
  IN [ref |-> ref]
     @@ Field(Truthy(role), "role", role)
     @@ Field(Truthy(name), "name", name)
     @@ Field(role = "heading" /\ Truthy(level), "level", parseInt(level))
     @@ Field(role \in {"checkbox", "radio", "switch"}, "checked",
              CheckedOf(n) \/ e.ariaChecked = "true")
     @@ Field(role \in {"textbox", "searchbox", "combobox"} /\ Truthy(ValueOf(n)),
              "value", Slice(ValueOf(n), ValueLimit))
     @@ Field(role \in {"textbox", "searchbox", "combobox"} /\ Truthy(PlaceholderOf(n)),
              "placeholder", PlaceholderOf(n))
     @@ Field(e.disabled \/ e.ariaDisabled = "true", "disabled", TRUE)
     @@ Field(e.required \/ e.ariaRequired = "true", "required", TRUE)
     @@ Field(children # <<>>, "children", children)

\* buildAccessibilityNode(element, options, currentDepth): the result and the
\* registry it leaves.  BuildChildren is the loop over element.children.
RECURSIVE buildAccessibilityNode(_, _, _, _)
RECURSIVE BuildChildren(_, _, _, _)

\* what the loop pushes for one child's result
Pushed(tree) ==
  CASE tree.kind = "null" -> <<>>
    [] tree.kind = "array" -> tree.items
    [] tree.kind = "node" -> <<tree.node>>

\* a loop over element.children that runs from the last child to the first
BuildChildren_backwards(kids, options, depth, reg) ==
  IF kids = <<>> THEN [children |-> <<>>, reg |-> reg]
  ELSE With([rest \in {BuildChildren(Tail(kids), options, depth, reg)} |->
         With([first \in {buildAccessibilityNode(Head(kids), options, depth, rest.reg)} |->
           [children |-> Pushed(first.tree) \o rest.children, reg |-> first.reg]])])

BuildChildren(kids, options, depth, reg) ==
  IF kids = <<>> THEN [children |-> <<>>, reg |-> reg]
  ELSE With([first \in {buildAccessibilityNode(Head(kids), options, depth, reg)} |->
         With([rest \in {BuildChildren(Tail(kids), options, depth, first.reg)} |->
           [children |-> Pushed(first.tree) \o rest.children, reg |-> rest.reg]])])

\* the node's own result without elision rule A
Materialize_keepAll(element, options, role, name, isElementInteractive, children, reg) ==
  IF options.compact /\ ~Truthy(role) /\ ~Truthy(name) /\ ~isElementInteractive
    THEN [tree |-> ChildrenOrNull(children), reg |-> reg]
  ELSE IF Truthy(role) \/ Truthy(name) \/ isElementInteractive \/ children # <<>>
    THEN With([a \in {Allocate(reg, element)} |->
           [tree |-> NodeResult(MakeNode(element, a.ref, role, name, children)),
            reg |-> a.reg]])
  ELSE [tree |-> ChildrenOrNull(children), reg |-> reg]

\* the node's own result without elision rule B
Materialize_keepEmpty(element, options, role, name, isElementInteractive, children, reg) ==
  IF options.interactive /\ ~isElementInteractive /\ ~Truthy(role)
    THEN [tree |-> ChildrenOrNull(children), reg |-> reg]
  ELSE IF Truthy(role) \/ Truthy(name) \/ isElementInteractive \/ children # <<>>
    THEN With([a \in {Allocate(reg, element)} |->
           [tree |-> NodeResult(MakeNode(element, a.ref, role, name, children)),
            reg |-> a.reg]])
  ELSE [tree |-> ChildrenOrNull(children), reg |-> reg]

\* lines 347-396: the node's own result, once its children are built
Materialize(element, options, role, name, isElementInteractive, children, reg) ==
  IF options.interactive /\ ~isElementInteractive /\ ~Truthy(role)
    THEN [tree |-> ChildrenOrNull(children), reg |-> reg]
  ELSE IF options.compact /\ ~Truthy(role) /\ ~Truthy(name) /\ ~isElementInteractive
    THEN [tree |-> ChildrenOrNull(children), reg |-> reg]
  ELSE IF Truthy(role) \/ Truthy(name) \/ isElementInteractive \/ children # <<>>
    THEN With([a \in {Allocate(reg, element)} |->
           [tree |-> NodeResult(MakeNode(element, a.ref, role, name, children)),
            reg |-> a.reg]])
  ELSE [tree |-> ChildrenOrNull(children), reg |-> reg]

\* a projector that skips an invisible element and goes on into its children
buildAccessibilityNode_leaky(element, options, currentDepth, reg) ==
  IF options.depth # <<>> /\ currentDepth > options.depth[1]
    THEN [tree |-> NullResult, reg |-> reg]
  ELSE
    With([built \in {BuildChildren(Children(element), options, currentDepth + 1, reg)} |->
      IF ~isElementVisible(element)
      THEN [tree |-> ChildrenOrNull(built.children), reg |-> built.reg]
      ELSE Materialize(element, options, getRole(element), getAccessibleName(element),
                       isInteractive(element), built.children, built.reg)])

\* a projector that does not look at options.depth
buildAccessibilityNode_deep(element, options, currentDepth, reg) ==
  IF ~isElementVisible(element) THEN [tree |-> NullResult, reg |-> reg]
  ELSE
    With([built \in {BuildChildren(Children(element), options, currentDepth + 1, reg)} |->
      Materialize(element, options, getRole(element), getAccessibleName(element),
                  isInteractive(element), built.children, built.reg)])

buildAccessibilityNode(element, options, currentDepth, reg) ==
  IF ~isElementVisible(element) THEN [tree |-> NullResult, reg |-> reg]
  ELSE IF options.depth # <<>> /\ currentDepth > options.depth[1]
    THEN [tree |-> NullResult, reg |-> reg]
  ELSE
    With([role \in {getRole(element)} |->
      With([name \in {getAccessibleName(element)} |->
        With([isElementInteractive \in {isInteractive(element)} |->
          With([built \in {BuildChildren(Children(element), options, currentDepth + 1, reg)} |->
                 Materialize(element, options, role, name, isElementInteractive,
                             built.children, built.reg)])])])])

Has(node, key) == key \in DOMAIN node

\* the line formatNode pushes for one node
FormatLine(node, indent) ==
  LET parts == (IF Has(node, "role") THEN <<node.role>> ELSE <<>>)
               \o (IF Has(node, "name") THEN <<"\"" \o node.name \o "\"">> ELSE <<>>)
      attrs == <<"ref=" \o node.ref>>
               \o (IF Has(node, "level") /\ node.level # 0
                   THEN <<"level=" \o NumberToString(node.level)>> ELSE <<>>)
               \o (IF Has(node, "checked")
                   THEN <<IF node.checked THEN "checked" ELSE "unchecked">> ELSE <<>>)
               \o (IF Has(node, "disabled") THEN <<"disabled">> ELSE <<>>)
               \o (IF Has(node, "required") THEN <<"required">> ELSE <<>>)
               \o (IF Has(node, "value") THEN <<"value=\"" \o node.value \o "\"">> ELSE <<>>)
               \o (IF Has(node, "placeholder")
                   THEN <<"placeholder=\"" \o node.placeholder \o "\"">> ELSE <<>>)
  IN Repeat("  ", indent) \o "- " \o JoinWith(parts, " ")
     \o " [" \o JoinWith(attrs, "] [") \o "]"

\* formatNode(node, indent) for one node and formatNodes for a list: the lines pushed
RECURSIVE formatNode(_, _)
RECURSIVE formatNodes(_, _)

formatNodes(nodes, indent) ==
  IF nodes = <<>> THEN <<>>
  ELSE formatNode(Head(nodes), indent) \o formatNodes(Tail(nodes), indent)

formatNode(node, indent) ==
  <<FormatLine(node, indent)>>
  \o (IF Has(node, "children") THEN formatNodes(node.children, indent + 1) ELSE <<>>)

\* lines 457-463
FormatTree(tree) ==
  CASE tree.kind = "null" -> <<>>
    [] tree.kind = "array" -> formatNodes(tree.items, 0)
    [] tree.kind = "node" -> formatNode(tree.node, 0)

\* snapshot(options): the response and the registry it leaves
\* A response: the result object, or the error code the message listener sends
\* back.  el records the element the handler resolved and worked on (0: none).
Ok(op, params, el, payload) ==
  [op |-> op, params |-> params, ok |-> TRUE, code |-> "", el |-> el, result |-> payload]
Err(op, params, el, code) ==
  [op |-> op, params |-> params, ok |-> FALSE, code |-> code, el |-> el, result |-> NoField]

\* a snapshot that answers a scope matching nothing with an empty result
snapshot_lenient(options, reg) ==
  With([cleared \in {clearRefs(reg)} |->
    With([root \in {IF Truthy(options.scope) THEN querySelector(options.scope) ELSE Body} |->
      IF root = 0
      THEN [response |-> Ok("snapshot", options, 0,
                            [tree |-> NullResult, text |-> "", refCount |-> 0]),
            reg |-> cleared]
      ELSE With([b \in {buildAccessibilityNode(root, options, 0, cleared)} |->
             [response |-> Ok("snapshot", options, root,
                              [tree |-> b.tree,
                               text |-> JoinWith(FormatTree(b.tree), "\n"),
                               refCount |-> b.reg.counter]),
              reg |-> b.reg]])])])

\* a snapshot that looks its scope up before it clears the registry
snapshot_scopeFirst(options, reg) ==
  With([root \in {IF Truthy(options.scope) THEN querySelector(options.scope) ELSE Body} |->
    IF root = SyntaxError
    THEN [response |-> Err("snapshot", options, 0, SyntaxErrorCode), reg |-> reg]
    ELSE IF root = 0
    THEN [response |-> Err("snapshot", options, 0, "ELEMENT_NOT_FOUND"), reg |-> reg]
    ELSE With([b \in {buildAccessibilityNode(root, options, 0, clearRefs(reg))} |->
           [response |-> Ok("snapshot", options, root,
                            [tree |-> b.tree,
                             text |-> JoinWith(FormatTree(b.tree), "\n"),
                             refCount |-> b.reg.counter]),
            reg |-> b.reg]])])
snapshot(options, reg) ==
  With([cleared \in {clearRefs(reg)} |->
    With([root \in {IF Truthy(options.scope) THEN querySelector(options.scope) ELSE Body} |->
      IF root = SyntaxError
      THEN [response |-> Err("snapshot", options, 0, SyntaxErrorCode), reg |-> cleared]
      ELSE IF root = 0
      THEN [response |-> Err("snapshot", options, 0, "ELEMENT_NOT_FOUND"), reg |-> cleared]
      ELSE With([b \in {buildAccessibilityNode(root, options, 0, cleared)} |->
             [response |-> Ok("snapshot", options, root,
                              [tree |-> b.tree,
                               text |-> JoinWith(FormatTree(b.tree), "\n"),
                               refCount |-> b.reg.counter]),
              reg |-> b.reg]])])])

\* ---------------------------------------------------------------- locators
\* an indexing that gives the last match for an index past the end
ArrayAt_last(matches, index) ==
  IF index \in 0..(Len(matches) - 1) THEN matches[index + 1]
  ELSE IF matches # <<>> THEN matches[Len(matches)] ELSE 0

\* matches[index], 0 for undefined
ArrayAt(matches, index) ==
  IF index \in 0..(Len(matches) - 1) THEN matches[index + 1] ELSE 0

\* a tail that draws the ref before it tests the index
Locate_eager(op, params, found, reg, describe) ==
  With([matches \in {found} |->
    IF Len(matches) = 0
      THEN [response |-> Err(op, params, 0, "ELEMENT_NOT_FOUND"), reg |-> reg]
    ELSE With([element \in {ArrayAt(matches, params.index)} |->
      IF element = 0
        THEN [response |-> Err(op, params, 0, "INDEX_OUT_OF_RANGE"),
              reg |-> generateRef(reg).reg]
      ELSE With([a \in {Allocate(reg, element)} |->
             [response |-> Ok(op, params, element,
                              [ref |-> a.ref, count |-> Len(matches)] @@ describe[element]),
              reg |-> a.reg]])])])

\* the tail shared by the four locators: the two errors, then the ref
Locate(op, params, found, reg, describe) ==
  With([matches \in {found} |->
    IF Len(matches) = 0
      THEN [response |-> Err(op, params, 0, "ELEMENT_NOT_FOUND"), reg |-> reg]
    ELSE With([element \in {ArrayAt(matches, params.index)} |->
      IF element = 0
        THEN [response |-> Err(op, params, 0, "INDEX_OUT_OF_RANGE"), reg |-> reg]
      ELSE With([a \in {Allocate(reg, element)} |->
             [response |-> Ok(op, params, element,
                              [ref |-> a.ref, count |-> Len(matches)] @@ describe[element]),
              reg |-> a.reg]])])])

\* a findByRole whose implicit-role pass does not skip elements that carry a
\* role attribute
RoleMatches_twice(role, name) ==
  With([all \in {DocOrder} |->
    With([elements \in {SelectSeqBy(all, {n \in Nodes : El(n).role = role /\ isElementVisible(n)})
         \o SelectSeqBy(all, {n \in Nodes : /\ getRole(n) = role
                                              /\ isElementVisible(n)})} |->
           IF Truthy(name)
           THEN SelectSeqBy(elements,
                  {n \in Range(elements) :
                     Includes(ToLowerCase(getAccessibleName(n)), ToLowerCase(name))})
           ELSE elements])])

\* findByRole: the elements array, then the name filter
RoleMatches(role, name) ==
  With([all \in {DocOrder} |->
    With([elements \in {SelectSeqBy(all, {n \in Nodes : El(n).role = role /\ isElementVisible(n)})
         \o SelectSeqBy(all, {n \in Nodes : /\ getRole(n) = role
                                              /\ El(n).role = Null
                                              /\ isElementVisible(n)})} |->
           IF Truthy(name)
           THEN SelectSeqBy(elements,
                  {n \in Range(elements) :
                     Includes(ToLowerCase(getAccessibleName(n)), ToLowerCase(name))})
           ELSE elements])])

findByRole(params, reg) ==
  Locate("findByRole", params, RoleMatches(params.role, params.name), reg,
         [el \in Nodes |-> [role |-> getRole(el), name |-> getAccessibleName(el)]])

\* labelEl.querySelector('input, select, textarea'), 0 for null
FirstControlIn(labelEl) ==
  First(SelectSeqBy(Tail(PreOrder(labelEl)),
                    {n \in Nodes : El(n).tag \in {"input", "select", "textarea"}}))

\* matches.push(x) unless matches.includes(x), for each x of xs in turn
RECURSIVE PushNew(_, _)
PushNew(matches, xs) ==
  IF xs = <<>> THEN matches
  ELSE PushNew(IF Head(xs) \in Range(matches) THEN matches ELSE Append(matches, Head(xs)),
               Tail(xs))

\* an attribute selector [attr*="q" i]: present and containing q, ignoring case
AttrContains(attr, q) ==
  attr # Null /\ q # "" /\ Includes(ToLowerCase(attr), ToLowerCase(q))

\* the control a label element points at, 0 for none
LabelTarget(l) ==
  IF Truthy(El(l).for) THEN getElementById(El(l).for) ELSE FirstControlIn(l)

LabelMatches(label) ==
  With([all \in {DocOrder} |->
    With([labels \in {SelectSeqBy(all,
           {n \in Nodes : /\ El(n).tag = "label"
                          /\ Includes(ToLowerCase(textContent(n)), ToLowerCase(label))})} |->
      With([targets \in {[i \in 1..Len(labels) |-> LabelTarget(labels[i])]} |->
        PushNew(
          PushNew(
            SelectSeqBy(targets, {n \in Nodes : isElementVisible(n)}),
            SelectSeqBy(all, {n \in Nodes : /\ AttrContains(El(n).ariaLabel, label)
                                            /\ isElementVisible(n)})),
          SelectSeqBy(all, {n \in Nodes : /\ AttrContains(El(n).placeholder, label)
                                          /\ isElementVisible(n)}))])])])

findByLabel(params, reg) ==
  Locate("findByLabel", params, LabelMatches(params.label), reg,
         [el \in Nodes |-> [tagName |-> El(el).tag, type |-> TypeOf(el)]])

\* exact ? nodeText === searchText : nodeText.includes(searchText)
TextAccepts(n, text, exact) ==
  IF exact THEN ToLowerCase(textContent(n)) = ToLowerCase(text)
  ELSE Includes(ToLowerCase(textContent(n)), ToLowerCase(text))

\* the nodes walker.nextNode() returns below n: an invisible node is rejected with
\* its subtree, a node whose text does not match is skipped
RECURSIVE WalkBelow(_, _, _)
WalkBelow(n, text, exact) ==
  With([kids \in {Children(n)} |->
    Flatten([i \in 1..Len(kids) |->
      IF ~isElementVisible(kids[i]) THEN <<>>
      ELSE (IF TextAccepts(kids[i], text, exact) THEN <<kids[i]>> ELSE <<>>)
           \o WalkBelow(kids[i], text, exact)])])

\* Array.from(node.children).some(...)
HasMatchingChild(n, text, exact) ==
  \E c \in Range(Children(n)) : TextAccepts(c, text, exact)

TextMatches(text, exact) ==
  With([accepted \in {WalkBelow(Body, text, exact)} |->
    SelectSeqBy(accepted, {n \in Range(accepted) : ~HasMatchingChild(n, text, exact)})])

findByText(params, reg) ==
  Locate("findByText", params, TextMatches(params.text, params.exact), reg,
         [el \in Nodes |-> [tagName |-> El(el).tag, text |-> Slice(textContent(el), TextResultLimit)]])

PlaceholderMatches(placeholder) ==
  SelectSeqBy(DocOrder,
    {n \in Nodes : AttrContains(El(n).placeholder, placeholder) /\ isElementVisible(n)})

findByPlaceholder(params, reg) ==
  Locate("findByPlaceholder", params, PlaceholderMatches(params.placeholder), reg,
         [el \in Nodes |-> [tagName |-> El(el).tag, type |-> TypeOf(el),
                      placeholder |-> PlaceholderOf(el)]])

\* ----------------------------------------------------------------- actions
\* findElement(selector): the element, or 0 where it throws ELEMENT_NOT_FOUND
findElement(selector) == getElement(selector)

\* element.click(): a checkbox toggles, a label activates its control
ClickTarget(n) ==
  IF El(n).tag = "label"
  THEN (IF Truthy(El(n).for) THEN getElementById(El(n).for) ELSE FirstControlIn(n))
  ELSE n

Clicked(n) ==
  With([t \in {ClickTarget(n)} |->
    IF t # 0 /\ El(t).tag = "input" /\ TypeOf(t) = "checkbox" /\ ~El(t).disabled
    THEN (IF t \in checked THEN checked \ {t} ELSE checked \cup {t})
    ELSE checked])

\* Each handler gives its response and the checked set it leaves.
Done(response) == [response |-> response, checked |-> checked]

\* const element = await findElement(selector), which throws ELEMENT_NOT_FOUND
\* where getElement gives null; then the rest of the handler
WithElement(op, params, rest) ==
  With([element \in {findElement(params.selector)} |->
    IF element = SyntaxError THEN Done(Err(op, params, 0, SyntaxErrorCode))
    ELSE IF element = 0 THEN Done(Err(op, params, 0, "ELEMENT_NOT_FOUND"))
    ELSE rest[element]])

click(params) ==
  WithElement("click", params, [element \in Nodes |->
    [response |-> Ok("click", params, element, [success |-> TRUE]),
     checked |-> Clicked(element)]])

press(params) ==
  WithElement("press", params, [element \in Nodes |->
    Done(Ok("press", params, element, [success |-> TRUE]))])

\* select: the documents hold no option elements, so a select element finds no option
select(params) ==
  WithElement("select", params, [element \in Nodes |->
    IF El(element).tag # "select"
    THEN Done(Err("select", params, element, "INVALID_ELEMENT"))
    ELSE Done(Err("select", params, element, "ELEMENT_NOT_FOUND"))])

check(params) ==
  WithElement("check", params, [element \in Nodes |->
    IF TypeOf(element) \notin {"checkbox", "radio"}
    THEN Done(Err("check", params, element, "INVALID_ELEMENT"))
    ELSE With([after \in {IF ~CheckedOf(element) THEN Clicked(element) ELSE checked} |->
           [response |-> Ok("check", params, element,
                            [success |-> TRUE, checked |-> element \in after]),
            checked |-> after]])])

uncheck(params) ==
  WithElement("uncheck", params, [element \in Nodes |->
    IF TypeOf(element) # "checkbox"
    THEN Done(Err("uncheck", params, element, "INVALID_ELEMENT"))
    ELSE With([after \in {IF CheckedOf(element) THEN Clicked(element) ELSE checked} |->
           [response |-> Ok("uncheck", params, element,
                            [success |-> TRUE, checked |-> element \in after]),
            checked |-> after]])])

scroll(params) ==
  WithElement("scroll", params, [element \in Nodes |->
    Done(Ok("scroll", params, element, [success |-> TRUE]))])

hover(params) ==
  WithElement("hover", params, [element \in Nodes |->
    Done(Ok("hover", params, element, [success |-> TRUE]))])

\* getAttribute with attribute: 'id'
getAttribute(params) ==
  WithElement("getAttribute", params, [element \in Nodes |->
    Done(Ok("getAttribute", params, element, [value |-> El(element).id]))])

\* getProperty with property: 'id', the empty string where the attribute is absent
getProperty(params) ==
  WithElement("getProperty", params, [element \in Nodes |->
    Done(Ok("getProperty", params, element,
            [value |-> IF El(element).id = Null THEN "" ELSE El(element).id]))])

getValue(params) ==
  WithElement("getValue", params, [element \in Nodes |->
    Done(Ok("getValue", params, element,
            [value |-> IF ValueOf(element) # Null THEN ValueOf(element)
                       ELSE textContent(element)]))])

getText(params) ==
  WithElement("getText", params, [element \in Nodes |->
    Done(Ok("getText", params, element, [text |-> textContent(element)]))])

\* getHTML: the serialisation is stood for by the element's tag and text
getHTML(params) ==
  WithElement("getHTML", params, [element \in Nodes |->
    Done(Ok("getHTML", params, element,
            [html |-> <<El(element).tag, textContent(element)>>]))])

isVisible(params) ==
  With([element \in {getElement(params.selector)} |->
    IF element = SyntaxError THEN Done(Err("isVisible", params, 0, SyntaxErrorCode))
    ELSE Done(Ok("isVisible", params, element,
                 [visible |-> IF element # 0 THEN isElementVisible(element) ELSE FALSE]))])

isEnabled(params) ==
  WithElement("isEnabled", params, [element \in Nodes |->
    Done(Ok("isEnabled", params, element, [enabled |-> ~El(element).disabled]))])

isChecked(params) ==
  WithElement("isChecked", params, [element \in Nodes |->
    Done(Ok("isChecked", params, element, [checked |-> CheckedOf(element)]))])

\* handleAction for the handlers that run without suspending
SyncOps ==
  {"click", "press", "select", "check", "uncheck", "scroll", "hover", "getAttribute",
   "getProperty", "getValue", "getText", "getHTML", "isVisible", "isEnabled", "isChecked"}

handleAction(op, params) ==
  CASE op = "click" -> click(params)
    [] op = "press" -> press(params)
    [] op = "select" -> select(params)
    [] op = "check" -> check(params)
    [] op = "uncheck" -> uncheck(params)
    [] op = "scroll" -> scroll(params)
    [] op = "hover" -> hover(params)
    [] op = "getAttribute" -> getAttribute(params)
    [] op = "getProperty" -> getProperty(params)
    [] op = "getValue" -> getValue(params)
    [] op = "getText" -> getText(params)
    [] op = "getHTML" -> getHTML(params)
    [] op = "isVisible" -> isVisible(params)
    [] op = "isEnabled" -> isEnabled(params)
    [] op = "isChecked" -> isChecked(params)

\* ------------------------------------------------------------ the commands
\* The parameters the commands are called with.
SnapshotOptions ==
  [interactive : BOOLEAN, compact : BOOLEAN,
   depth : {<<>>} \cup {<<d>> : d \in 0..MaxDepth},
   scope : {Null, "#a", "#zz"}]

Indexes == 0..MaxIndex

RoleParams == [role : {"button", "textbox"}, name : {Null, "save", "Email"}, index : Indexes]
TextParams == [text : {"Save"}, exact : BOOLEAN, index : Indexes]
LabelParams == [label : {"email", "name"}, index : Indexes]
PlaceholderParams == [placeholder : {"mail"}, index : Indexes]

\* "#zz" matches nothing
Selectors ==
  {"@e" \o NumberToString(k) : k \in 1..MaxActionRef} \cup {"@zz", "#a", "#zz"}

ActionParams == [selector : Selectors]
TypeParams == [selector : {"@e1", "#a"}, text : {"", "x"}]
WaitSelectorParams == [selector : {"#a", "@e1"}]
WaitTextParams == [text : {"Save"}]

Styles == {"", "none", "hidden", "opacity0"}

InitValue(n) ==
  IF El(n).tag = "input" /\ TypeOf(n) = "checkbox" THEN "on" ELSE ""

NoResponse == Ok("", NoField, 0, NoField)

\* a process that takes no part in the specification at hand
NotRunning == <<>>

Init ==
  /\ page \in Pages
  /\ removed = {}
  /\ style = [n \in Nodes |-> ""]
  /\ value = [n \in Nodes |-> InitValue(n)]
  /\ checked = {}
  /\ mutations = 0
  /\ refToElement = EmptyMap
  /\ refCounter = 0
  /\ pending = <<>>
  /\ last = NoResponse
  /\ before = EmptyRegistry
  /\ host = NotRunning
  /\ client = NotRunning

\* no response is waiting to be sent: sendResponse runs in the microtask that
\* follows the handler's last step, before any other handler or page script
Idle == last = NoResponse

\* the message listener passes the response to sendResponse
SendResponse ==
  /\ last # NoResponse
  /\ last' = NoResponse
  /\ before' = EmptyRegistry
  /\ UNCHANGED <<domVars, refToElement, refCounter, pending>>
  /\ UNCHANGED transportVars

\* with a response, the registry its handler started from
RecordBefore ==
  before' = IF last' = NoResponse THEN before ELSE Registry

SetRegistry(reg) ==
  /\ refToElement' = reg.map
  /\ refCounter' = reg.counter

RemoveAt(seq, i) == SubSeq(seq, 1, i - 1) \o SubSeq(seq, i + 1, Len(seq))

\* one pass of type's loop body: element.value += char
Keystroke(element, char) ==
  IF HasValueProperty(element) THEN [value EXCEPT ![element] = @ \o char] ELSE value

\* a locator call: f is one of the four handlers
Find(found) ==
  /\ Idle
  /\ refCounter < MaxRefs
  /\ \E r \in {found} :
       /\ SetRegistry(r.reg)
       /\ last' = r.response
  /\ RecordBefore
  /\ UNCHANGED <<domVars, pending>>
  /\ UNCHANGED transportVars

FindByRole(params) == Find(findByRole(params, Registry))
FindByLabel(params) == Find(findByLabel(params, Registry))
FindByText(params) == Find(findByText(params, Registry))
FindByPlaceholder(params) == Find(findByPlaceholder(params, Registry))

\* a dispatch that registers the element its handler worked on, as
\* waitForSelector does
Act_registering(op, params) ==
  /\ Idle
  /\ \E r \in {handleAction(op, params)} :
       \E cost \in {IF r.checked # checked THEN 1 ELSE 0} :
         /\ mutations + cost <= MaxMutations
         /\ checked' = r.checked
         /\ mutations' = mutations + cost
         /\ last' = r.response
         /\ IF r.response.ok /\ r.response.el # 0 /\ refCounter < MaxRefs
            THEN SetRegistry(Allocate(Registry, r.response.el).reg)
            ELSE UNCHANGED <<refToElement, refCounter>>
  /\ RecordBefore
  /\ UNCHANGED <<page, removed, style, value, pending>>
  /\ UNCHANGED transportVars

\* a handler that runs to its response without suspending
Act(op, params) ==
  /\ Idle
  /\ \E r \in {handleAction(op, params)} :
       \E cost \in {IF r.checked # checked THEN 1 ELSE 0} :
         /\ mutations + cost <= MaxMutations
         /\ checked' = r.checked
         /\ mutations' = mutations + cost
         /\ last' = r.response
  /\ RecordBefore
  /\ UNCHANGED <<page, removed, style, value, refToElement, refCounter, pending>>
  /\ UNCHANGED transportVars

\* evaluate({code}) for three programs: one that returns, one that throws, and
\* one that changes the page.  The code runs in a function made by new
\* Function, which sees the global scope and the document but not the
\* closure that holds refToElement and refCounter; an exception is caught and
\* returned as a result.
EvaluateParams ==
  [code : {"return 1", "throw 1", "document.getElementById('a').remove()"}]

EvalError == [error |-> [code |-> "EVAL_ERROR"]]

evaluate(params) ==
  CASE params.code = "return 1" ->
         [response |-> Ok("evaluate", params, 0, [result |-> "1"]), removed |-> removed]
    [] params.code = "throw 1" ->
         [response |-> Ok("evaluate", params, 0, EvalError), removed |-> removed]
    [] OTHER ->
         With([element \in {getElementById("a")} |->
           IF element = 0
           THEN [response |-> Ok("evaluate", params, 0, EvalError), removed |-> removed]
           ELSE [response |-> Ok("evaluate", params, element, [result |-> Null]),
                 removed |-> removed \cup {element}]])

\* the listener's dispatch of evaluate
Evaluate(params) ==
  /\ Idle
  /\ \E r \in {evaluate(params)} :
       \E cost \in {IF r.removed # removed THEN 1 ELSE 0} :
         /\ mutations + cost <= MaxMutations
         /\ removed' = r.removed
         /\ mutations' = mutations + cost
         /\ last' = r.response
  /\ RecordBefore
  /\ UNCHANGED <<page, style, value, checked, refToElement, refCounter, pending>>
  /\ UNCHANGED transportVars

\* type({selector, text}) up to its first sleep, or to its response for an empty text
typeStart(cmd, params, val) ==
  With([element \in {findElement(params.selector)} |->
    IF element = SyntaxError
      THEN [response |-> Err(cmd, params, 0, SyntaxErrorCode), value |-> val,
            suspended |-> <<>>]
    ELSE IF element = 0
      THEN [response |-> Err(cmd, params, 0, "ELEMENT_NOT_FOUND"), value |-> val,
            suspended |-> <<>>]
    ELSE IF params.text = ""
      THEN [response |-> Ok(cmd, params, element, [success |-> TRUE]), value |-> val,
            suspended |-> <<>>]
    ELSE [response |-> NoResponse,
          value |-> IF HasValueProperty(element)
                    THEN [val EXCEPT ![element] = @ \o Head(params.text)] ELSE val,
          suspended |-> <<[cmd |-> cmd, params |-> params, el |-> element,
                           rest |-> Tail(params.text)]>>]])

\* fill({selector, text}): clear the value, then type
fillStart(params) ==
  With([element \in {findElement(params.selector)} |->
    IF element = SyntaxError
      THEN [response |-> Err("fill", params, 0, SyntaxErrorCode), value |-> value,
            suspended |-> <<>>]
    ELSE IF element = 0
      THEN [response |-> Err("fill", params, 0, "ELEMENT_NOT_FOUND"), value |-> value,
            suspended |-> <<>>]
    ELSE typeStart("fill", params,
                   IF HasValueProperty(element) THEN [value EXCEPT ![element] = ""]
                   ELSE value)])

Changes(val) == Cardinality({n \in Nodes : val[n] # value[n]})

StartTyping(started) ==
  /\ Idle
  /\ \E r \in {started} :
       \E cost \in {Changes(r.value)
                     + (IF r.suspended # <<>> THEN Len(r.suspended[1].rest) ELSE 0)} :
         /\ mutations + cost <= MaxMutations
         /\ Len(pending) + Len(r.suspended) <= MaxPending
         /\ value' = r.value
         /\ mutations' = mutations + cost
         /\ pending' = pending \o r.suspended
         /\ last' = IF r.suspended = <<>> THEN r.response ELSE last
  /\ RecordBefore
  /\ UNCHANGED <<page, removed, style, checked, refToElement, refCounter>>
  /\ UNCHANGED transportVars

Type(params) == StartTyping(typeStart("type", params, value))
Fill(params) == StartTyping(fillStart(params))

\* a suspended type wakes from sleep(10): the next keystroke, or the response
TypeResume(i) ==
  LET p == pending[i]
  IN /\ Idle
     /\ p.cmd \in {"type", "fill"}
     /\ IF p.rest = ""
        THEN /\ last' = Ok(p.cmd, p.params, p.el, [success |-> TRUE])
             /\ pending' = RemoveAt(pending, i)
             /\ UNCHANGED value
        ELSE /\ value' = Keystroke(p.el, Head(p.rest))
             /\ pending' = [pending EXCEPT ![i].rest = Tail(p.rest)]
             /\ UNCHANGED last
     /\ RecordBefore
     /\ UNCHANGED <<page, removed, style, checked, mutations, refToElement, refCounter>>
     /\ UNCHANGED transportVars

\* one pass of waitForSelector's loop body: the response, or nothing while it sleeps
waitForSelectorPoll(params, reg) ==
  With([element \in {getElement(params.selector)} |->
    IF element = SyntaxError
    THEN [found |-> TRUE, reg |-> reg,
          response |-> Err("waitForSelector", params, 0, SyntaxErrorCode)]
    ELSE IF element # 0 /\ isElementVisible(element)
    THEN With([a \in {Allocate(reg, element)} |->
           [found |-> TRUE, reg |-> a.reg,
            response |-> Ok("waitForSelector", params, element,
                            [success |-> TRUE, ref |-> a.ref,
                             element |-> [tagName |-> El(element).tag,
                                          id |-> El(element).id]])]])
    ELSE [found |-> FALSE, reg |-> reg, response |-> NoResponse]])

\* a snapshot that yields before its response: a suspended waitForSelector
\* whose element has appeared polls, and allocates, in between
Snapshot_yielding(options) ==
  /\ Idle
  /\ \E s \in {snapshot(options, Registry)} :
       /\ last' = s.response
       /\ IF pending # <<>> /\ pending[1].cmd = "waitForSelector"
               /\ waitForSelectorPoll(pending[1].params, s.reg).found
          THEN /\ SetRegistry(waitForSelectorPoll(pending[1].params, s.reg).reg)
               /\ pending' = Tail(pending)
          ELSE /\ SetRegistry(s.reg)
               /\ UNCHANGED pending
  /\ RecordBefore
  /\ UNCHANGED domVars
  /\ UNCHANGED transportVars

Snapshot(options) ==
  /\ Idle
  /\ \E s \in {snapshot(options, Registry)} :
       /\ SetRegistry(s.reg)
       /\ last' = s.response
  /\ RecordBefore
  /\ UNCHANGED <<domVars, pending>>
  /\ UNCHANGED transportVars

WaitForSelector(params) ==
  /\ Idle
  /\ refCounter < MaxRefs
  /\ \E r \in {waitForSelectorPoll(params, Registry)} :
       IF r.found
       THEN /\ SetRegistry(r.reg)
            /\ last' = r.response
            /\ UNCHANGED pending
       ELSE /\ Len(pending) < MaxPending
            /\ pending' = Append(pending, [cmd |-> "waitForSelector", params |-> params])
            /\ UNCHANGED <<refToElement, refCounter, last>>
  /\ RecordBefore
  /\ UNCHANGED domVars
  /\ UNCHANGED transportVars

\* a suspended waitForSelector wakes from sleep(100) before its deadline
WaitForSelectorResume(i) ==
  /\ Idle
  /\ pending[i].cmd = "waitForSelector"
  /\ refCounter < MaxRefs
  /\ \E r \in {waitForSelectorPoll(pending[i].params, Registry)} :
       /\ r.found
       /\ SetRegistry(r.reg)
       /\ last' = r.response
  /\ RecordBefore
  /\ pending' = RemoveAt(pending, i)
  /\ UNCHANGED domVars
  /\ UNCHANGED transportVars

waitForTextPoll(params) ==
  Includes(ToLowerCase(textContent(Body)), ToLowerCase(params.text))

WaitForText(params) ==
  /\ Idle
  /\ IF waitForTextPoll(params)
     THEN /\ last' = Ok("waitForText", params, 0, [success |-> TRUE, found |-> TRUE])
          /\ UNCHANGED pending
     ELSE /\ Len(pending) < MaxPending
          /\ pending' = Append(pending, [cmd |-> "waitForText", params |-> params])
          /\ UNCHANGED last
  /\ RecordBefore
  /\ UNCHANGED <<domVars, refToElement, refCounter>>
  /\ UNCHANGED transportVars

WaitForTextResume(i) ==
  LET p == pending[i]
  IN /\ Idle
     /\ p.cmd = "waitForText"
     /\ waitForTextPoll(p.params)
     /\ last' = Ok("waitForText", p.params, 0, [success |-> TRUE, found |-> TRUE])
     /\ pending' = RemoveAt(pending, i)
     /\ RecordBefore
     /\ UNCHANGED <<domVars, refToElement, refCounter>>
     /\ UNCHANGED transportVars

\* a suspended wait wakes after its deadline
WaitTimeout(i) ==
  LET p == pending[i]
  IN /\ Idle
     /\ p.cmd \in {"waitForSelector", "waitForText"}
     /\ last' = Err(p.cmd, p.params, 0, "TIMEOUT")
     /\ pending' = RemoveAt(pending, i)
     /\ RecordBefore
     /\ UNCHANGED <<domVars, refToElement, refCounter>>
     /\ UNCHANGED transportVars

\* ------------------------------------------------------- the page changes
\* the page removes an element (with its subtree) from the document
RemoveElement(n) ==
  /\ Idle
  /\ n # Body /\ Attached(n) /\ n \notin removed
  /\ mutations < MaxMutations
  /\ removed' = removed \cup {n}
  /\ mutations' = mutations + 1
  /\ UNCHANGED <<page, style, value, checked, refToElement, refCounter, pending, last, before>>
  /\ UNCHANGED transportVars

\* the page puts a removed element (with its subtree) back where it was
RestoreElement(n) ==
  /\ Idle
  /\ n \in removed
  /\ removed' = removed \ {n}
  /\ mutations' = mutations - 1
  /\ UNCHANGED <<page, style, value, checked, refToElement, refCounter, pending, last, before>>
  /\ UNCHANGED transportVars

\* the page restyles an element; giving it back its first style undoes a change
SetStyle(n, s) ==
  /\ Idle
  /\ style[n] # s
  /\ \E cost \in {IF style[n] = "" THEN 1 ELSE IF s = "" THEN -1 ELSE 0} :
       /\ mutations + cost <= MaxMutations
       /\ mutations' = mutations + cost
  /\ style' = [style EXCEPT ![n] = s]
  /\ UNCHANGED <<page, removed, value, checked, refToElement, refCounter, pending, last, before>>
  /\ UNCHANGED transportVars

Next ==
  \/ \E o \in SnapshotOptions : Snapshot(o)
  \/ \E p \in RoleParams : FindByRole(p)
  \/ \E p \in LabelParams : FindByLabel(p)
  \/ \E p \in TextParams : FindByText(p)
  \/ \E p \in PlaceholderParams : FindByPlaceholder(p)
  \/ \E op \in SyncOps, p \in ActionParams : Act(op, p)
  \/ \E p \in EvaluateParams : Evaluate(p)
  \/ \E p \in TypeParams : Type(p)
  \/ \E p \in TypeParams : Fill(p)
  \/ \E i \in 1..Len(pending) : TypeResume(i)
  \/ \E p \in WaitSelectorParams : WaitForSelector(p)
  \/ \E i \in 1..Len(pending) : WaitForSelectorResume(i)
  \/ \E p \in WaitTextParams : WaitForText(p)
  \/ \E i \in 1..Len(pending) : WaitForTextResume(i)
  \/ \E i \in 1..Len(pending) : WaitTimeout(i)
  \/ \E n \in Nodes : RemoveElement(n)
  \/ \E n \in Nodes : RestoreElement(n)
  \/ \E n \in Nodes, s \in Styles : SetStyle(n, s)
  \/ SendResponse

Spec == Init /\ [][Next]_vars

\* ------------------------------------------- the resolvers and the locators
\* The snapshot and the locators over the documents of ResolverPages, whose
\* elements bring out each step of getRole, getAccessibleName, findByText and
\* findByLabel; the page removes, restores and restyles elements in between.
ResolverRoles == {"button", "link", "checkbox", "listbox", "region", "textbox"}

ResolverRoleParams == [role : ResolverRoles, name : {Null}, index : {0}]
ResolverTextParams == [text : {"World", "Hello", "Save"}, exact : BOOLEAN, index : {0}]
ResolverLabelParams == [label : {"name", "sea"}, index : Indexes]
ResolverPlaceholderParams == [placeholder : {"mail"}, index : {0}]

ResolverInit ==
  /\ page \in ResolverPages
  /\ removed = {}
  /\ style = [n \in Nodes |-> ""]
  /\ value = [n \in Nodes |-> InitValue(n)]
  /\ checked = {}
  /\ mutations = 0
  /\ refToElement = EmptyMap
  /\ refCounter = 0
  /\ pending = <<>>
  /\ last = NoResponse
  /\ before = EmptyRegistry
  /\ host = NotRunning
  /\ client = NotRunning

ResolverNext ==
  \/ \E o \in SnapshotOptions : Snapshot(o)
  \/ \E p \in ResolverRoleParams : FindByRole(p)
  \/ \E p \in ResolverLabelParams : FindByLabel(p)
  \/ \E p \in ResolverTextParams : FindByText(p)
  \/ \E p \in ResolverPlaceholderParams : FindByPlaceholder(p)
  \/ \E n \in Nodes : RemoveElement(n)
  \/ \E n \in Nodes : RestoreElement(n)
  \/ \E n \in Nodes, s \in Styles : SetStyle(n, s)
  \/ SendResponse

ResolverSpec == ResolverInit /\ [][ResolverNext]_vars

\* ------------------------------------------------------------ the client
\* FoxPilotClient (packages/client): the constructor, connect, disconnect, send,
\* handleMessage and the socket's callbacks, over the sockets the client has
\* opened.  A promise returned by send is a call: its method, its request id
\* ("" for a call that took none), whether ws.send put the request on the wire,
\* and every resolve or reject made on it, each with the event that made it.
MaxRequests == 2
MaxSockets == 2

DefaultDevToken == "default-dev-token"

\* options.token and process.env.FOX_PILOT_TOKEN as the constructor may find them
TokenOptions == {Null, "secret"}
TokenEnvironments == {Null, "test-token"}

\* new FoxPilotClient(options)
constructor(options, env) ==
  [thrown |-> Null,
   token |-> IF Truthy(options) THEN options ELSE IF Truthy(env) THEN env ELSE DefaultDevToken,
   options |-> options,
   env |-> env,
   ws |-> 0,
   sockets |-> <<>>,
   requestId |-> 0,
   pendingRequests |-> {},
   timers |-> {},
   calls |-> <<>>,
   late |-> {}]

\* an absent error object, and the message of an event that is no message
NoError == [code |-> Null, message |-> Null]
NoMessage == [id |-> Null, event |-> Null, success |-> FALSE, result |-> Null, error |-> NoError]

\* what made a call settle: a message received, a timer, a close or send itself
Because(kind, message) == [kind |-> kind, message |-> message]

Resolved(cause, result) ==
  [cause |-> cause, kind |-> "resolved", value |-> result, message |-> Null, code |-> Null]

Rejected(cause, message, code) ==
  [cause |-> cause, kind |-> "rejected", value |-> Null, message |-> message, code |-> code]

\* the call that took the request id
CallOf(c, id) == CHOOSE k \in DOMAIN c.calls : c.calls[k].id = id

\* pending.resolve or pending.reject of the request id
Settle(c, id, outcome) ==
  [c EXCEPT !.calls[CallOf(c, id)].settles = Append(@, outcome)]

\* what the server may put on a socket: responses and events
ResponseError == [code |-> "EXTENSION_ERROR", message |-> "Request timeout"]

\* a success response, a failure response with and without an error object, an
\* event; "9" is the id of no request
ResponseMessages ==
  {[id |-> id, event |-> Null, success |-> TRUE, result |-> "done", error |-> NoError] :
     id \in {Null, "1", "2", "9"}}
  \cup [id : {Null, "1", "2", "9"}, event : {Null}, success : {FALSE}, result : {Null},
        error : {NoError, ResponseError}]
  \cup [id : {Null, "1"}, event : {"tabUpdated"}, success : {FALSE}, result : {Null},
        error : {NoError}]

\* a handleMessage that leaves the request in pendingRequests
handleMessage_keep(c, message) ==
  IF Truthy(message.event) THEN c
  ELSE IF ~Truthy(message.id) THEN c
  ELSE IF message.id \in c.pendingRequests
  THEN IF message.success
       THEN Settle(c, message.id, Resolved(Because("message", message), message.result))
       ELSE Settle(c, message.id,
                   Rejected(Because("message", message),
                            IF Truthy(message.error.message) THEN message.error.message
                            ELSE "Unknown error",
                            message.error.code))
  ELSE c

\* handleMessage(message)
handleMessage(c, message) ==
  IF Truthy(message.event) THEN c
  ELSE IF ~Truthy(message.id) THEN c
  ELSE IF message.id \in c.pendingRequests
  THEN With([d \in {[c EXCEPT !.pendingRequests = @ \ {message.id}]} |->
         IF message.success
         THEN Settle(d, message.id, Resolved(Because("message", message), message.result))
         ELSE Settle(d, message.id,
                     Rejected(Because("message", message),
                              IF Truthy(message.error.message) THEN message.error.message
                              ELSE "Unknown error",
                              message.error.code))])
  ELSE c

\* send(method, params): the promise's executor.  ws.send throws on a socket
\* that is still connecting (the executor's throw rejects the promise, and the
\* timer is never set); it discards the data on a closing or closed socket.
send(c, method) ==
  IF c.ws = 0
  THEN [c EXCEPT !.calls = Append(@, [method |-> method, id |-> "", sent |-> FALSE,
                                       settles |-> <<Rejected(Because("send", NoMessage), "Not connected", Null)>>])]
  ELSE With([id \in {NumberToString(c.requestId + 1)} |->
         With([d \in {[c EXCEPT !.requestId = @ + 1, !.pendingRequests = @ \cup {id}]} |->
           IF d.sockets[d.ws] = "connecting"
           THEN [d EXCEPT !.calls = Append(@, [method |-> method, id |-> id, sent |-> FALSE,
                            settles |-> <<Rejected(Because("send", NoMessage), "InvalidStateError", Null)>>])]
           ELSE [d EXCEPT !.calls = Append(@, [method |-> method, id |-> id, sent |-> TRUE,
                                                settles |-> <<>>]),
                          !.timers = @ \cup {id}]])])

\* the callback send passes to setTimeout, when it runs
timeout(c, id) ==
  With([d \in {[c EXCEPT !.timers = @ \ {id}]} |->
    IF id \in d.pendingRequests
    THEN Settle([d EXCEPT !.pendingRequests = @ \ {id}], id,
                Rejected(Because("timer", NoMessage), "Request timeout: " \o d.calls[CallOf(d, id)].method,
                         Null))
    ELSE d])

\* for (const [, { reject }] of this.pendingRequests) reject(...)
RECURSIVE RejectAll(_, _)
RejectAll(c, ids) ==
  IF ids = {} THEN c
  ELSE With([id \in {CHOOSE i \in ids : TRUE} |->
         RejectAll(Settle(c, id, Rejected(Because("close", NoMessage), "Connection closed", Null)), ids \ {id})])

\* ws.onclose
onclose(c) ==
  [RejectAll(c, c.pendingRequests) EXCEPT !.pendingRequests = {}]

\* connect(): a new socket, its callbacks set
connect(c) ==
  [c EXCEPT !.sockets = Append(@, "connecting"), !.ws = Len(c.sockets) + 1]

\* disconnect()
disconnect(c) ==
  IF c.ws # 0
  THEN [c EXCEPT !.sockets[c.ws] = IF @ = "closed" THEN "closed" ELSE "closing", !.ws = 0]
  ELSE c

\* the requests whose response came after they were settled
LateFor(c, message) ==
  IF /\ ~Truthy(message.event)
     /\ \E k \in DOMAIN c.calls : c.calls[k].id = message.id /\ c.calls[k].settles # <<>>
  THEN {message.id} ELSE {}

\* the content script takes no step in the client's specification
contentVars == <<page, removed, style, value, checked, mutations, refToElement, refCounter,
                 pending, last, before>>

ClientInit ==
  /\ page = 1
  /\ removed = {}
  /\ style = [n \in Nodes |-> ""]
  /\ value = [n \in Nodes |-> InitValue(n)]
  /\ checked = {}
  /\ mutations = 0
  /\ refToElement = EmptyMap
  /\ refCounter = 0
  /\ pending = <<>>
  /\ last = NoResponse
  /\ before = EmptyRegistry
  /\ host = NotRunning
  /\ \E options \in TokenOptions, env \in TokenEnvironments :
       client = constructor(options, env)

ClientConnect ==
  /\ Len(client.sockets) < MaxSockets
  /\ client' = connect(client)
  /\ UNCHANGED <<contentVars, host>>

\* the socket opens: onopen calls authenticate, which sends auth
ClientOpen(s) ==
  /\ client.sockets[s] = "connecting"
  /\ Len(client.calls) < MaxRequests
  /\ client' = send([client EXCEPT !.sockets[s] = "open"], "auth")
  /\ UNCHANGED <<contentVars, host>>

ClientSend(method) ==
  /\ Len(client.calls) < MaxRequests
  /\ client' = send(client, method)
  /\ UNCHANGED <<contentVars, host>>

\* a message arrives on an open socket: onmessage
ClientReceive(s, message) ==
  /\ client.sockets[s] = "open"
  /\ client' = [handleMessage(client, message) EXCEPT !.late = @ \cup LateFor(client, message)]
  /\ UNCHANGED <<contentVars, host>>

ClientTimeout(id) ==
  /\ id \in client.timers
  /\ client' = timeout(client, id)
  /\ UNCHANGED <<contentVars, host>>

\* the connection ends, from either side
ClientClose(s) ==
  /\ client.sockets[s] # "closed"
  /\ client' = onclose([client EXCEPT !.sockets[s] = "closed"])
  /\ UNCHANGED <<contentVars, host>>

ClientDisconnect ==
  /\ client.ws # 0
  /\ client' = disconnect(client)
  /\ UNCHANGED <<contentVars, host>>

RequestIds == {NumberToString(k) : k \in 1..MaxRequests}

ClientNext ==
  \/ ClientConnect
  \/ \E s \in DOMAIN client.sockets : ClientOpen(s)
  \/ \E method \in {"snapshot"} : ClientSend(method)
  \/ \E s \in DOMAIN client.sockets, message \in ResponseMessages : ClientReceive(s, message)
  \/ \E id \in RequestIds : ClientTimeout(id)
  \/ \E s \in DOMAIN client.sockets : ClientClose(s)
  \/ ClientDisconnect

ClientSpec == ClientInit /\ [][ClientNext]_vars

\* a timer that has been set runs
ClientLive == ClientSpec /\ \A id \in RequestIds : WF_vars(ClientTimeout(id))

\* ------------------------------------------------------- the native host
\* The WebSocket server of the native host (native-host/host.ts): connections
\* that open, send messages and close, the extension answering on stdin, and
\* the timers of forwardToExtension.  out is what the last handler wrote: the
\* messages to the extension (stdout) and the messages to the connections.
\* correctAuth records the connections that have sent an auth message carrying
\* the token of the host, extension the requests written to the extension
\* that it has not answered yet, each with the connection it came from.
MaxConnections == 2

Connections == 1..MaxConnections

GeneratedToken == "generated"

\* getAuthToken(): the environment variable, the token of the config file, a
\* new random token
getAuthToken(env, config) ==
  IF Truthy(env) THEN env ELSE IF Truthy(config) THEN config ELSE GeneratedToken

\* a message on a WebSocket or to the extension: a response or an event
HostReply(id, success, code, result, event) ==
  [id |-> id, success |-> success, code |-> code, result |-> result, event |-> event]

Quiet == [forwarded |-> <<>>, sent |-> <<>>]

\* ws.send(JSON.stringify(message)): nothing is sent on a closed connection
WsSend(h, ws, message) ==
  IF h.conns[ws].state = "open"
  THEN [h EXCEPT !.out.sent = Append(@, [to |-> ws, message |-> message])]
  ELSE h

\* forwardToExtension(message) as far as its promise: the timer is set, the
\* request is put in pendingRequests under its id, sendToExtension writes it
\* and the extension holds it until it answers
forwardToExtension(h, ws, message) ==
  [h EXCEPT !.waiting = @ \cup {[id |-> message.id, ws |-> ws]},
            !.extension = @ \cup {[id |-> message.id, ws |-> ws]},
            !.pendingRequests = [i \in DOMAIN @ \cup {message.id} |->
                                   IF i = message.id THEN ws ELSE @[i]],
            !.out.forwarded = Append(@, [id |-> message.id, method |-> message.method,
                                         ws |-> ws])]

\* a handleClientMessage that takes any auth message for a good one
handleClientMessage_trusting(h, ws, message) ==
  IF message.method = "auth"
  THEN WsSend([h EXCEPT !.conns[ws].isAuthenticated = TRUE,
                        !.authenticatedClients = @ \cup {ws}],
              ws, HostReply(message.id, TRUE, Null, "authenticated", Null))
  ELSE IF ~h.conns[ws].isAuthenticated
  THEN WsSend(h, ws, HostReply(message.id, FALSE, "NOT_AUTHENTICATED", Null, Null))
  ELSE forwardToExtension(h, ws, message)

\* handleClientMessage(ws, message), up to its await
handleClientMessage(h, ws, message) ==
  IF message.method = "auth"
  THEN IF message.token = h.AUTH_TOKEN
       THEN WsSend([h EXCEPT !.conns[ws].isAuthenticated = TRUE,
                             !.authenticatedClients = @ \cup {ws}],
                   ws, HostReply(message.id, TRUE, Null, "authenticated", Null))
       ELSE WsSend(h, ws, HostReply(message.id, FALSE, "AUTH_FAILED", Null, Null))
  ELSE IF ~h.conns[ws].isAuthenticated
  THEN WsSend(h, ws, HostReply(message.id, FALSE, "NOT_AUTHENTICATED", Null, Null))
  ELSE forwardToExtension(h, ws, message)

\* broadcastToClients(message)
RECURSIVE broadcastToClients(_, _, _)
broadcastToClients(h, clients, message) ==
  IF clients = {} THEN h
  ELSE With([ws \in {CHOOSE c \in clients : TRUE} |->
         broadcastToClients(WsSend(h, ws, message), clients \ {ws}, message)])

\* map.delete(id)
MapDelete(map, id) == [i \in DOMAIN map \ {id} |-> map[i]]

\* handleExtensionMessage(message); the handler whose promise it resolves then
\* sends the response to its connection
handleExtensionMessage(h, message) ==
  With([waiter \in {IF message.id \in DOMAIN h.pendingRequests
                    THEN {[id |-> message.id, ws |-> h.pendingRequests[message.id]]}
                    ELSE {}} |->
    With([d \in {[h EXCEPT !.pendingRequests = MapDelete(@, message.id),
                           !.waiting = @ \ waiter]} |->
      With([e \in {IF Truthy(message.event)
                   THEN broadcastToClients(d, d.authenticatedClients, message)
                   ELSE d} |->
        IF waiter = {} THEN e
        ELSE WsSend(e, h.pendingRequests[message.id], message)])])])

\* the timer of forwardToExtension, when it runs: the entry under the id is
\* deleted, the promise rejected, and handleClientMessage sends the error
ForwardTimeout(h, waiter) ==
  WsSend([h EXCEPT !.pendingRequests = MapDelete(@, waiter.id),
                   !.waiting = @ \ {waiter}],
         waiter.ws, HostReply(waiter.id, FALSE, "EXTENSION_ERROR", Null, Null))

\* websocket.close(ws)
HostOnClose(h, ws) ==
  [h EXCEPT !.conns[ws].state = "closed", !.authenticatedClients = @ \ {ws}]

\* the messages a client may send: auth with a token or none, and a command
HostTokens == {Null, "wrong", "test-token", "saved", GeneratedToken}

ClientMessages ==
  [id : {"1", "2"}, method : {"auth"}, token : HostTokens]
  \cup [id : {"1", "2"}, method : {"snapshot"}, token : {Null}]

\* what the extension may write: a response, with an event name or none
ExtensionMessages ==
  {HostReply(id, success, IF success THEN Null ELSE "ELEMENT_NOT_FOUND",
             IF success THEN "done" ELSE Null, event) :
     id \in {"1", "2"}, success \in BOOLEAN, event \in {Null, "tabUpdated"}}

HostInit ==
  /\ page = 1
  /\ removed = {}
  /\ style = [n \in Nodes |-> ""]
  /\ value = [n \in Nodes |-> InitValue(n)]
  /\ checked = {}
  /\ mutations = 0
  /\ refToElement = EmptyMap
  /\ refCounter = 0
  /\ pending = <<>>
  /\ last = NoResponse
  /\ before = EmptyRegistry
  /\ client = NotRunning
  /\ \E env \in {Null, "test-token"}, config \in {Null, "saved"} :
       host = [AUTH_TOKEN |-> getAuthToken(env, config),
               conns |-> [c \in Connections |-> [state |-> "new", isAuthenticated |-> FALSE]],
               authenticatedClients |-> {},
               pendingRequests |-> EmptyMap,
               waiting |-> {},
               extension |-> {},
               out |-> Quiet,
               correctAuth |-> {}]

\* server.upgrade(req, {data: {isAuthenticated: false}}) and websocket.open
HostConnect(ws) ==
  /\ host.conns[ws].state = "new"
  /\ host' = [host EXCEPT !.conns[ws].state = "open", !.out = Quiet]
  /\ UNCHANGED <<contentVars, client>>

\* websocket.message with a frame that parses to a ClientMessage
HostMessage(ws, message) ==
  /\ host.conns[ws].state = "open"
  /\ host' = [handleClientMessage([host EXCEPT !.out = Quiet], ws, message)
                EXCEPT !.correctAuth =
                  IF message.method = "auth" /\ message.token = host.AUTH_TOKEN
                  THEN @ \cup {ws} ELSE @]
  /\ UNCHANGED <<contentVars, client>>

\* websocket.message with a frame that JSON.parse rejects
HostBadFrame(ws) ==
  /\ host.conns[ws].state = "open"
  /\ host' = WsSend([host EXCEPT !.out = Quiet], ws,
                    HostReply(Null, FALSE, "PARSE_ERROR", Null, Null))
  /\ UNCHANGED <<contentVars, client>>

\* what a message of the extension with this id answers: one of the requests
\* the extension holds under the id, or none when it holds none
Answerable(h, id) ==
  With([held \in {{r \in h.extension : r.id = id}} |->
    IF held = {} THEN {{}} ELSE {{r} : r \in held}])

\* readNativeMessages hands a message of the extension to handleExtensionMessage:
\* the extension's answer to a request it holds under the message's id, which
\* it holds no longer, or a message it sends unasked
HostExtensionMessage(message) ==
  /\ \E origin \in Answerable(host, message.id) :
       host' = [handleExtensionMessage([host EXCEPT !.out = Quiet], message)
                  EXCEPT !.extension = @ \ origin]
  /\ UNCHANGED <<contentVars, client>>

HostTimeout(waiter) ==
  /\ waiter \in host.waiting
  /\ host' = ForwardTimeout([host EXCEPT !.out = Quiet], waiter)
  /\ UNCHANGED <<contentVars, client>>

HostClose(ws) ==
  /\ host.conns[ws].state = "open"
  /\ host' = HostOnClose([host EXCEPT !.out = Quiet], ws)
  /\ UNCHANGED <<contentVars, client>>

HostNext ==
  \/ \E ws \in Connections : HostConnect(ws)
  \/ \E ws \in Connections, message \in ClientMessages : HostMessage(ws, message)
  \/ \E ws \in Connections : HostBadFrame(ws)
  \/ \E message \in ExtensionMessages : HostExtensionMessage(message)
  \/ \E waiter \in [id : {"1", "2"}, ws : Connections] : HostTimeout(waiter)
  \/ \E ws \in Connections : HostClose(ws)

HostSpec == HostInit /\ [][HostNext]_vars

\* ------------------------------------------------------------ properties
LocatorOps == {"findByRole", "findByLabel", "findByText", "findByPlaceholder"}

\* the response in flight comes from one of these commands
Answered(ops) == last # NoResponse /\ last.op \in ops

\* the ref ids @e1 .. @en
Refs(n) == {"@e" \o NumberToString(k) : k \in 1..n}

\* every node of a list of snapshot nodes, at any depth
RECURSIVE NodesOf(_)
NodesOf(nodes) ==
  IF nodes = <<>> THEN {}
  ELSE {Head(nodes)}
       \cup (IF Has(Head(nodes), "children") THEN NodesOf(Head(nodes).children) ELSE {})
       \cup NodesOf(Tail(nodes))

TreeNodes(tree) == NodesOf(Pushed(tree))

\* C1: a snapshot empties the registry and zeroes the counter before anything
\* else.  After a successful snapshot the registry's keys are exactly the refs
\* of the returned tree, they are @e1..@eN with N the number of nodes returned,
\* so no key of the registry the call started from survives unless this
\* snapshot allocated it again; after a failed one the registry is empty.
SnapshotResetsRegistry ==
  Answered({"snapshot"}) =>
    IF last.ok
    THEN /\ DOMAIN refToElement = {n.ref : n \in TreeNodes(last.result.tree)}
         /\ refCounter = Cardinality(TreeNodes(last.result.tree))
         /\ last.result.refCount = refCounter
         /\ DOMAIN refToElement = Refs(refCounter)
    ELSE refToElement = EmptyMap /\ refCounter = 0

\* a snapshot has answered from a registry that held more entries than it left
SnapshotResetsRegistry_witness ==
  /\ Answered({"snapshot"}) /\ last.ok
  /\ refCounter >= 1
  /\ before.counter > refCounter

\* C2: a step that is not a snapshot keeps every entry of the registry: each
\* key stays a key and resolves to the element it resolved to before the step.
RefsStableWithinEpoch ==
  [][last'.op # "snapshot" =>
       \A r \in DOMAIN refToElement :
         /\ r \in DOMAIN refToElement'
         /\ refToElement'[r] = refToElement[r]
         /\ getElement(r)' = getElement(r)]_vars

\* a wait has allocated a ref in a registry that already held entries, and
\* those entries are still bound as they were
RefsStableWithinEpoch_witness ==
  /\ Answered({"waitForSelector"}) /\ last.ok
  /\ before.counter >= 1
  /\ \A r \in DOMAIN before.map : getElement(r) = before.map[r]

\* C4: the registry's keys are exactly @e1..@eN, N the counter, and the ref
\* generateRef would hand out next is not one of them.
KeysAreOneToCounter ==
  /\ DOMAIN refToElement = Refs(refCounter)
  /\ generateRef(Registry).ref \notin DOMAIN refToElement
  /\ generateRef(Registry).reg.counter = refCounter + 1

\* a locator has just allocated the second ref of an epoch
KeysAreOneToCounter_witness ==
  /\ Answered({"findByLabel"}) /\ last.ok
  /\ refCounter = 2
  /\ last.result.ref = "@e2"

\* the commands that take a selector and resolve it with findElement or getElement
SelectorOps == SyncOps \cup {"type", "fill"}

IsRef(selector) == StartsWith(selector, "@")

\* C3 (the claim as stated): an action answering for a ref whose element is no
\* longer attached to the document answers ELEMENT_NOT_FOUND.
DetachedRefIsNotFound ==
  (/\ Answered(SelectorOps)
   /\ IsRef(last.params.selector)
   /\ last.params.selector \in DOMAIN before.map
   /\ ~Attached(before.map[last.params.selector]))
  => (~last.ok /\ last.code = "ELEMENT_NOT_FOUND")

\* C5: every node of a returned snapshot tree, at any depth, carries a ref that
\* is a key of the registry, and the node is the description of the element
\* that key is bound to; the ref of a locator result is a key bound to the
\* element the result describes.
ReturnedRefsAreBound ==
  /\ (Answered({"snapshot"}) /\ last.ok) =>
       \A node \in TreeNodes(last.result.tree) :
         /\ node.ref \in DOMAIN refToElement
         /\ node = MakeNode(refToElement[node.ref], node.ref,
                            getRole(refToElement[node.ref]),
                            getAccessibleName(refToElement[node.ref]),
                            IF Has(node, "children") THEN node.children ELSE <<>>)
  /\ (Answered(LocatorOps) /\ last.ok) =>
       /\ last.result.ref \in DOMAIN refToElement
       /\ refToElement[last.result.ref] = last.el
       /\ Has(last.result, "role") =>
            /\ last.result.role = getRole(refToElement[last.result.ref])
            /\ last.result.name = getAccessibleName(refToElement[last.result.ref])
       /\ Has(last.result, "tagName") =>
            last.result.tagName = El(refToElement[last.result.ref]).tag

\* a snapshot has returned a tree with a node below its root node
ReturnedRefsAreBound_witness ==
  /\ Answered({"snapshot"}) /\ last.ok
  /\ last.result.tree.kind = "node"
  /\ Has(last.result.tree.node, "children")
  /\ \E node \in TreeNodes(last.result.tree) : Has(node, "role") /\ Has(node, "name")

\* C6: what a snapshot returns and the registry it leaves are those the same
\* options give on the same document from an empty registry, whatever the
\* registry held when it was called; so two snapshots of an unchanged
\* document with the same options agree in tree, refs and text.
SnapshotIgnoresEarlierRefs ==
  Answered({"snapshot"}) =>
    /\ snapshot(last.params, EmptyRegistry) = [response |-> last, reg |-> Registry]
    /\ snapshot(last.params, before) = [response |-> last, reg |-> Registry]

\* a snapshot has returned several nodes from a registry that held fewer
\* entries, left there by locators or waits
SnapshotIgnoresEarlierRefs_witness ==
  /\ Answered({"snapshot"}) /\ last.ok
  /\ before.counter >= 1
  /\ before.counter < refCounter
  /\ last.result.text # ""

\* C7: a locator that succeeds adds one entry, for the element it selected,
\* under a key that is new; the counter is one more than before and every entry
\* the registry held is still there, bound as it was.  A locator that fails
\* leaves the registry as it was.
LocatorAddsOneEntry ==
  Answered(LocatorOps) =>
    IF last.ok
    THEN /\ refCounter = before.counter + 1
         /\ last.result.ref \notin DOMAIN before.map
         /\ DOMAIN refToElement = DOMAIN before.map \cup {last.result.ref}
         /\ getElement(last.result.ref) = last.el
         /\ \A r \in DOMAIN before.map : getElement(r) = before.map[r]
    ELSE Registry = before

\* a locator has chosen one of several matches in a registry that held entries
LocatorAddsOneEntry_witness ==
  /\ Answered(LocatorOps) /\ last.ok
  /\ before.counter >= 1
  /\ last.result.count >= 2

\* the match list of the locator whose response is r
MatchesOf(r) ==
  CASE r.op = "findByRole" -> RoleMatches(r.params.role, r.params.name)
    [] r.op = "findByLabel" -> LabelMatches(r.params.label)
    [] r.op = "findByText" -> TextMatches(r.params.text, r.params.exact)
    [] r.op = "findByPlaceholder" -> PlaceholderMatches(r.params.placeholder)

\* C8: a locator with no match answers ELEMENT_NOT_FOUND whatever the index;
\* with matches and an index above their number minus one it answers
\* INDEX_OUT_OF_RANGE; otherwise it succeeds with the match at that position
\* and count is the number of matches.
LocatorIndexing ==
  Answered(LocatorOps) =>
    \E matches \in {MatchesOf(last)} :
      IF Len(matches) = 0
        THEN ~last.ok /\ last.code = "ELEMENT_NOT_FOUND"
      ELSE IF last.params.index > Len(matches) - 1
        THEN ~last.ok /\ last.code = "INDEX_OUT_OF_RANGE"
      ELSE /\ last.ok
           /\ last.el = matches[last.params.index + 1]
           /\ last.result.count = Len(matches)

\* findByRole('button', name 'save', index 1) with one such button
LocatorIndexing_witness ==
  /\ Answered({"findByRole"})
  /\ last.params = [role |-> "button", name |-> "save", index |-> 1]
  /\ Len(RoleMatches("button", "save")) = 1
  /\ last.code = "INDEX_OUT_OF_RANGE"

\* element n has no semantics of its own under these options: no role, no name
\* and not interactive, or, in interactive mode, no role and not interactive
SemanticallyEmpty(n, options) ==
  /\ ~Truthy(getRole(n))
  /\ ~isInteractive(n)
  /\ options.interactive \/ ~Truthy(getAccessibleName(n))

\* nothing of element n is projected at this depth: it is invisible or past the
\* depth limit, or it is semantically empty and nothing of its children is projected
RECURSIVE ProjectsNothing(_, _, _)
ProjectsNothing(n, options, currentDepth) ==
  \/ ~isElementVisible(n)
  \/ options.depth # <<>> /\ currentDepth > options.depth[1]
  \/ /\ SemanticallyEmpty(n, options)
     /\ \A c \in Range(Children(n)) : ProjectsNothing(c, options, currentDepth + 1)

\* the root a snapshot with these options starts from, 0 where the scope matches nothing
RootOf(options) ==
  IF Truthy(options.scope) THEN querySelector(options.scope) ELSE Body

\* C9: a snapshot whose scope matches nothing answers ELEMENT_NOT_FOUND and no
\* tree; any other snapshot succeeds, and where its root is invisible or has
\* nothing to project the tree is null.
SnapshotScope ==
  Answered({"snapshot"}) =>
    IF RootOf(last.params) = 0
    THEN ~last.ok /\ last.code = "ELEMENT_NOT_FOUND" /\ ~Has(last.result, "tree")
    ELSE /\ last.ok
         /\ ProjectsNothing(RootOf(last.params), last.params, 0)
              => last.result.tree.kind = "null"

\* a snapshot of a visible root that is semantically empty has answered with a
\* null tree
SnapshotScope_witness ==
  /\ Answered({"snapshot"}) /\ last.ok
  /\ isElementVisible(RootOf(last.params))
  /\ SemanticallyEmpty(RootOf(last.params), last.params)
  /\ last.result.tree.kind = "null"

UnknownRef(selector) == IsRef(selector) /\ selector \notin DOMAIN refToElement

\* a handler for one of these commands runs from its call to its response in this step
AnswersAtOnce(ops) ==
  /\ last = NoResponse /\ last' # NoResponse
  /\ last'.op \in ops
  /\ pending' = pending

\* a type or fill suspends in its first sleep in this step
Suspends ==
  /\ Len(pending') = Len(pending) + 1
  /\ pending'[Len(pending')].cmd \in {"type", "fill"}

\* C10 (the claim as stated): every command that takes a selector, isVisible
\* among them, answers ELEMENT_NOT_FOUND for a ref that is not in the registry.
UnknownRefIsNotFound ==
  [][/\ (AnswersAtOnce(SelectorOps) /\ UnknownRef(last'.params.selector))
          => (~last'.ok /\ last'.code = "ELEMENT_NOT_FOUND")
     /\ Suspends => ~UnknownRef(pending'[Len(pending')].params.selector)]_vars

\* C10 (amended): every command that takes a selector except isVisible answers
\* ELEMENT_NOT_FOUND for a ref that is not in the registry, and type and fill
\* do so before their first keystroke; isVisible answers visible: false.
UnknownRefIsNotFoundButForIsVisible ==
  [][/\ (AnswersAtOnce(SelectorOps \ {"isVisible"}) /\ UnknownRef(last'.params.selector))
          => (~last'.ok /\ last'.code = "ELEMENT_NOT_FOUND")
     /\ Suspends => ~UnknownRef(pending'[Len(pending')].params.selector)
     /\ (AnswersAtOnce({"isVisible"}) /\ UnknownRef(last'.params.selector))
          => (last'.ok /\ last'.result = [visible |-> FALSE])]_vars

\* a click on a ref the registry does not hold, while it holds another, has
\* answered ELEMENT_NOT_FOUND
UnknownRefIsNotFoundButForIsVisible_witness ==
  /\ Answered({"click"})
  /\ refCounter >= 1
  /\ UnknownRef(last.params.selector)
  /\ last.code = "ELEMENT_NOT_FOUND"

\* the response in flight is the one a handler gives whose selector resolved to
\* target: a DOMException for a string that is no selector, the element itself,
\* or ELEMENT_NOT_FOUND (visible: false from isVisible) for null
ResolvedTo(target) ==
  IF target = SyntaxError THEN ~last.ok /\ last.code = SyntaxErrorCode
  ELSE /\ last.el = target
       /\ target = 0 => ((~last.ok /\ last.code = "ELEMENT_NOT_FOUND")
                           \/ (last.op = "isVisible" /\ last.ok))

\* the registry of the handler's start looked up for selector, 0 when absent
Lookup(selector) ==
  IF selector \in DOMAIN before.map THEN before.map[selector] ELSE 0

\* C11 (the claim as stated): a selector is resolved through the registry
\* exactly when it has ref form ("@e" and digits); every other string, one
\* that starts with "@" among them, is evaluated by querySelector.
RefFormResolvesThroughRegistry ==
  Answered(SyncOps) =>
    ResolvedTo(IF RefForm(last.params.selector)
               THEN Lookup(last.params.selector)
               ELSE querySelector(last.params.selector))

\* C11 (amended): a selector is resolved through the registry exactly when it
\* starts with "@", of ref form or not; every other string is evaluated by
\* querySelector against the document and not looked up in the registry.
AtSignResolvesThroughRegistry ==
  Answered(SyncOps) =>
    ResolvedTo(IF IsRef(last.params.selector)
               THEN Lookup(last.params.selector)
               ELSE querySelector(last.params.selector))

\* a click on "@zz", which starts with "@" and is not of ref form, was looked
\* up in a registry that holds refs and answered ELEMENT_NOT_FOUND
AtSignResolvesThroughRegistry_witness ==
  /\ Answered({"click"})
  /\ last.params.selector = "@zz"
  /\ ~RefForm(last.params.selector)
  /\ before.counter >= 1
  /\ ~last.ok /\ last.code = "ELEMENT_NOT_FOUND"

\* a handler is called in this step: it answers at once or suspends in a sleep
Starts ==
  \/ last = NoResponse /\ last' # NoResponse /\ pending' = pending
  \/ Len(pending') > Len(pending)

\* C12 (the claim as stated): commands are processed one at a time: no
\* handler is started while an earlier command is suspended between two
\* keystrokes or two polls.
OneCommandAtATime ==
  [][Starts => pending = <<>>]_vars

\* a snapshot or a locator is called in this step and answers in it
Completes ==
  /\ last = NoResponse /\ last' # NoResponse
  /\ last'.op \in {"snapshot"} \cup LocatorOps

\* C13: a snapshot or a find-by-* call runs from its first to its last step
\* with no step of another command in between: in the step from its call to
\* its response no suspended command moves (no keystroke of a suspended type,
\* no poll of a suspended wait) and the registry changes by this call's
\* allocations alone: after a snapshot its keys are the refs of the returned
\* tree and nothing else, after a locator the keys it started with and the
\* one ref it returns.
RunsToCompletion ==
  [][Completes =>
       /\ pending' = pending
       /\ value' = value /\ checked' = checked
       /\ (last'.op = "snapshot" /\ last'.ok) =>
            /\ DOMAIN refToElement' = {n.ref : n \in TreeNodes(last'.result.tree)}
            /\ refCounter' = Cardinality(TreeNodes(last'.result.tree))
       /\ (last'.op = "snapshot" /\ ~last'.ok) =>
            (refToElement' = EmptyMap /\ refCounter' = 0)
       /\ (last'.op \in LocatorOps /\ last'.ok) =>
            /\ refCounter' = refCounter + 1
            /\ DOMAIN refToElement' = DOMAIN refToElement \cup {last'.result.ref}
            /\ \A k \in DOMAIN refToElement : refToElement'[k] = refToElement[k]
       /\ (last'.op \in LocatorOps /\ ~last'.ok) =>
            UNCHANGED <<refToElement, refCounter>>]_vars

\* a snapshot has answered while a waitForSelector was suspended whose element
\* had become visible: the wait's poll, and its allocation, did not run in
\* between
RunsToCompletion_witness ==
  /\ Answered({"snapshot"}) /\ last.ok
  /\ refCounter >= 1
  /\ pending # <<>>
  /\ pending[1].cmd = "waitForSelector"
  /\ getElement(pending[1].params.selector) > 0
  /\ isElementVisible(getElement(pending[1].params.selector))

\* the elements the registry binds
Bound == {refToElement[k] : k \in DOMAIN refToElement}

\* the elements from n up to the projection root, both included; empty when n
\* is not below the root
PathToRoot(n, root) == {m \in AncestorsOrSelf(n) : root \in AncestorsOrSelf(m)}

\* C14: the projector neither materializes nor binds a ref to a node that is
\* invisible or has an invisible ancestor at or below the projection root:
\* after a snapshot every bound element lies below the root and every element
\* on its way up to the root is visible, and the nodes of the returned tree
\* are the bound elements.
InvisiblePrunesSubtree ==
  (Answered({"snapshot"}) /\ last.ok) =>
    /\ \A n \in Bound :
         /\ PathToRoot(n, RootOf(last.params)) # {}
         /\ \A m \in PathToRoot(n, RootOf(last.params)) : isElementVisible(m)
    /\ \A node \in TreeNodes(last.result.tree) : node.ref \in DOMAIN refToElement

\* a snapshot of the whole page has returned a tree and bound no ref to an
\* element that passes the visibility test itself and has a role, below a
\* parent of opacity 0
InvisiblePrunesSubtree_witness ==
  /\ Answered({"snapshot"}) /\ last.ok
  /\ last.params.depth = <<>> /\ ~Truthy(last.params.scope)
  /\ last.result.tree.kind = "node"
  /\ \E n \in Nodes :
       /\ isElementVisible(n) /\ Truthy(getRole(n))
       /\ ~isElementVisible(Parent(n)) /\ Parent(n) # Body
       /\ n \notin Bound

\* the number of steps from the projection root down to n
Distance(n, root) == Cardinality(PathToRoot(n, root)) - 1

\* n is below the root, it and everything up to the root is visible, and it
\* has a role: no elision rule of any mode drops it
Projectable(n, root) ==
  /\ PathToRoot(n, root) # {}
  /\ \A m \in PathToRoot(n, root) : isElementVisible(m)
  /\ Truthy(getRole(n))

\* C15: with depth d no node further than d steps from the projection root
\* is materialized or bound (with depth 0 nothing below the root, so no
\* grandchild of it), every visible element with a role within d steps is,
\* and with depth null the projection goes to any distance.
DepthLimitsProjection ==
  (Answered({"snapshot"}) /\ last.ok) =>
    /\ last.params.depth # <<>> =>
         \A n \in Bound : Distance(n, RootOf(last.params)) <= last.params.depth[1]
    /\ \A n \in Nodes :
         (/\ Projectable(n, RootOf(last.params))
          /\ last.params.depth # <<>> =>
                Distance(n, RootOf(last.params)) <= last.params.depth[1])
           => n \in Bound

\* a snapshot of depth 1 has bound a child of the root and left out a visible
\* grandchild with a role
DepthLimitsProjection_witness ==
  /\ Answered({"snapshot"}) /\ last.ok
  /\ last.params.depth = <<1>>
  /\ \E n \in Bound : Distance(n, RootOf(last.params)) = 1
  /\ \E n \in Nodes :
       /\ Projectable(n, RootOf(last.params))
       /\ Distance(n, RootOf(last.params)) = 2
       /\ n \notin Bound

\* the elements of a list of snapshot nodes with their nesting: each node is
\* replaced by the element its ref is bound to
RECURSIVE ElementsOf(_)
ElementsOf(nodes) ==
  [i \in 1..Len(nodes) |->
     [el |-> refToElement[nodes[i].ref],
      children |-> IF Has(nodes[i], "children") THEN ElementsOf(nodes[i].children)
                   ELSE <<>>]]

\* in interactive mode an element is kept when it is interactive or has a role
KeptInteractive(n) == isInteractive(n) \/ Truthy(getRole(n))

\* in compact mode an element is kept when it has a role, a name or is interactive
KeptCompact(n) ==
  Truthy(getRole(n)) \/ Truthy(getAccessibleName(n)) \/ isInteractive(n)

\* options.interactive or options.compact is set: rule A decides first
Kept(n, options) ==
  IF options.interactive THEN KeptInteractive(n) ELSE KeptCompact(n)

\* what the elision rules say the projection of n is: nothing for an
\* invisible element or one past the depth limit; otherwise the projections
\* of its children in document order, under n when n is kept and in n's
\* place when it is not
RECURSIVE SplicedList(_, _, _)
RECURSIVE Spliced(_, _, _)
SplicedList(kids, options, currentDepth) ==
  IF kids = <<>> THEN <<>>
  ELSE Spliced(Head(kids), options, currentDepth)
         \o SplicedList(Tail(kids), options, currentDepth)

Spliced(n, options, currentDepth) ==
  IF ~isElementVisible(n) \/ (options.depth # <<>> /\ currentDepth > options.depth[1])
    THEN <<>>
  ELSE IF Kept(n, options)
    THEN <<[el |-> n, children |-> SplicedList(Children(n), options, currentDepth + 1)]>>
  ELSE SplicedList(Children(n), options, currentDepth + 1)

\* C16: in interactive mode a visible element that is not interactive and has
\* no role is not materialized and gets no ref; what is materialized below it
\* is spliced, in document order, into the children of its nearest
\* materialized ancestor or into the top-level list.
InteractiveSplices ==
  (Answered({"snapshot"}) /\ last.ok /\ last.params.interactive) =>
    /\ \A n \in Bound : KeptInteractive(n)
    /\ ElementsOf(Pushed(last.result.tree)) = Spliced(RootOf(last.params), last.params, 0)

\* the page's only semantic element is the button "Save" under a body that is
\* elided: the projection is the one-element list with that button as @e1
InteractiveSplices_witness ==
  /\ Answered({"snapshot"}) /\ last.ok /\ last.params.interactive
  /\ RootOf(last.params) = Body
  /\ ~KeptInteractive(Body)
  /\ last.result.tree = ArrayResult(<<[ref |-> "@e1", role |-> "button", name |-> "Save"]>>)

\* C17 (the claim as stated): a snapshot taken with the interactive option
\* shows only interactive elements: every element materialized in interactive
\* mode is interactive.
InteractiveShowsOnlyInteractive ==
  (Answered({"snapshot"}) /\ last.ok /\ last.params.interactive) =>
    \A n \in Bound : isInteractive(n)

\* C18: in compact mode an element with no role, an empty name and no
\* interactivity is never materialized and its collected children stand in
\* its place, at the level it would have had; every element materialized in
\* compact mode has a role, a non-empty name or is interactive.
CompactElidesEmpty ==
  (Answered({"snapshot"}) /\ last.ok /\ last.params.compact) =>
    /\ \A n \in Bound : KeptCompact(n)
    /\ ElementsOf(Pushed(last.result.tree)) = Spliced(RootOf(last.params), last.params, 0)

\* a compact snapshot has left out a visible wrapper with no role, no name and
\* no interactivity whose one child is interactive, and that child is the
\* first child of the node of the wrapper's parent
CompactElidesEmpty_witness ==
  /\ Answered({"snapshot"}) /\ last.ok
  /\ last.params.compact /\ ~last.params.interactive
  /\ last.result.tree.kind = "node"
  /\ \E w \in Nodes :
       /\ isElementVisible(w) /\ ~KeptCompact(w)
       /\ w \notin Bound
       /\ Len(Children(w)) = 1
       /\ isInteractive(Children(w)[1])
       /\ refToElement[last.result.tree.node.ref] = Parent(w)
       /\ refToElement[last.result.tree.node.children[1].ref] = Children(w)[1]

\* element n has no labelling attribute of its own, no label element and no
\* text of its own: any text below it lies inside its child elements
NoOwnLabelling(n) ==
  /\ ~Truthy(El(n).ariaLabel) /\ ~Truthy(El(n).labelledBy)
  /\ ~Truthy(El(n).title) /\ ~Truthy(El(n).placeholder) /\ ~Truthy(El(n).alt)
  /\ ~Truthy(El(n).id)
  /\ El(n).text = ""

\* C19 (the claim as stated): compact mode removes empty structural elements:
\* a wrapper with no role, no interactivity and no labelling of its own, whose
\* only text lies inside its child elements, is not materialized in a compact
\* snapshot.
CompactRemovesWrappers ==
  (Answered({"snapshot"}) /\ last.ok /\ last.params.compact) =>
    \A n \in Bound :
      ~(/\ ~Truthy(getRole(n)) /\ ~isInteractive(n)
        /\ NoOwnLabelling(n)
        /\ Children(n) # <<>>)

\* the visible elements whose role attribute is role, or that carry no role
\* attribute and whose implicit role is role, and whose accessible name
\* contains name (when given) whatever the case
WithRole(role, name) ==
  {n \in Nodes :
     /\ isElementVisible(n)
     /\ \/ El(n).role = role
        \/ El(n).role = Null /\ getRole(n) = role
     /\ Truthy(name) =>
          Includes(ToLowerCase(getAccessibleName(n)), ToLowerCase(name))}

\* C20: findByRole counts every visible element at most once: count is the
\* number of visible elements with the role as attribute or, lacking the
\* attribute, as implicit role, filtered by name; the selected element is one
\* of them and the returned ref resolves to it; with none of them it answers
\* ELEMENT_NOT_FOUND.  With one input labelled Email on the page,
\* findByRole('textbox', name 'Email') gives count 1 and a ref to that input.
FindByRoleCountsOnce ==
  Answered({"findByRole"}) =>
    /\ last.ok =>
         /\ last.result.count = Cardinality(WithRole(last.params.role, last.params.name))
         /\ last.el \in WithRole(last.params.role, last.params.name)
         /\ refToElement[last.result.ref] = last.el
    /\ (~last.ok /\ last.code = "ELEMENT_NOT_FOUND") <=>
         WithRole(last.params.role, last.params.name) = {}
    /\ (/\ last.params = [role |-> "textbox", name |-> "Email", index |-> 0]
        /\ \E n \in Nodes : isElementVisible(n) /\ El(n) = EmailInput) =>
         /\ last.ok /\ last.result.count = 1
         /\ El(refToElement[last.result.ref]) = EmailInput

\* findByRole('button') on a page with a visible div of role="button" and a
\* visible button element has counted two and returned a ref to the first
FindByRoleCountsOnce_witness ==
  /\ Answered({"findByRole"}) /\ last.ok
  /\ last.params.role = "button" /\ ~Truthy(last.params.name)
  /\ \E n \in Nodes : isElementVisible(n) /\ El(n).role = "button"
  /\ \E n \in Nodes : isElementVisible(n) /\ El(n).role = Null /\ El(n).tag = "button"
  /\ last.result.count = 2
  /\ refToElement[last.result.ref] = last.el

\* the elements below body that findByText's filter accepts: visible, and their
\* text equal to the query (exact) or containing it, letter case aside
AcceptedNodes(text, exact) ==
  SelectSeqBy(DocOrder,
    {n \in Nodes \ {Body} : isElementVisible(n) /\ TextAccepts(n, text, exact)})

\* the accepted nodes none of whose descendants is accepted
MostSpecific(accepted) ==
  SelectSeqBy(accepted,
    {n \in Range(accepted) :
       ~\E d \in Range(accepted) : d # n /\ n \in AncestorsOrSelf(d)})

\* the answer of a locator whose match list is matches
AnswersFrom(matches) ==
  IF matches = <<>> THEN ~last.ok /\ last.code = "ELEMENT_NOT_FOUND"
  ELSE IF last.params.index >= Len(matches) THEN ~last.ok /\ last.code = "INDEX_OUT_OF_RANGE"
  ELSE /\ last.ok
       /\ last.el = matches[last.params.index + 1]
       /\ last.result.count = Len(matches)

\* C21: findByText answers from the list of the accepted nodes that have no
\* accepted descendant, in document order: a node is left out only because a
\* descendant of it is itself accepted.
FindByTextKeepsMostSpecific ==
  Answered({"findByText"}) =>
    AnswersFrom(MostSpecific(AcceptedNodes(last.params.text, last.params.exact)))

\* the visible controls findByLabel's three routes reach: the target of a label
\* element whose text contains the query, an element whose aria-label contains
\* it, an element whose placeholder contains it
ReachedByLabel(label) ==
  {n \in Nodes :
     /\ Attached(n) /\ isElementVisible(n)
     /\ \/ \E l \in Range(DocOrder) :
             /\ El(l).tag = "label"
             /\ Includes(ToLowerCase(textContent(l)), ToLowerCase(label))
             /\ LabelTarget(l) = n
        \/ AttrContains(El(n).ariaLabel, label)
        \/ AttrContains(El(n).placeholder, label)}

\* C22: findByLabel's match list holds no element twice: count is the number of
\* distinct visible controls the three routes reach, and an index from that
\* number on is out of range.
FindByLabelDeduplicates ==
  Answered({"findByLabel"}) =>
    With([reached \in {ReachedByLabel(last.params.label)} |->
      IF reached = {} THEN ~last.ok /\ last.code = "ELEMENT_NOT_FOUND"
      ELSE IF last.params.index >= Cardinality(reached)
        THEN ~last.ok /\ last.code = "INDEX_OUT_OF_RANGE"
      ELSE last.ok /\ last.el \in reached /\ last.result.count = Cardinality(reached)])

\* what each step of the accessible-name chain yields for n, in the order of
\* the chain, Null for a step that does not apply: aria-label, aria-labelledby,
\* the label element for the id, the wrapping label, title, placeholder, alt,
\* the text content, the value
NameSteps(n) ==
  With([e \in {El(n)} |->
    With([elementText \in {Trim(textContent(n))} |->
      << IF e.ariaLabel # Null THEN Trim(e.ariaLabel) ELSE Null,
         IF e.labelledBy # Null THEN JoinWith(LabelledByTexts(n), " ") ELSE Null,
         IF Truthy(e.id) /\ LabelFor(e.id) # 0 THEN Trim(textContent(LabelFor(e.id))) ELSE Null,
         IF ClosestLabel(n) # 0
           THEN WrappedLabelName(Trim(textContent(ClosestLabel(n))), elementText)
           ELSE Null,
         IF e.title # Null THEN Trim(e.title) ELSE Null,
         IF e.placeholder # Null THEN Trim(e.placeholder) ELSE Null,
         IF e.alt # Null THEN Trim(e.alt) ELSE Null,
         IF Len(elementText) <= NameTextLimit THEN elementText ELSE Null,
         IF HasValueProperty(n) THEN Slice(value[n], ValueLimit) ELSE Null >>])])

\* the steps that yield a non-empty result
NonEmptySteps(n) ==
  With([steps \in {NameSteps(n)} |-> {i \in DOMAIN steps : Truthy(steps[i])}])

\* the result of the earliest step that yields a non-empty one, "" if none does
FirstNonEmpty(n) ==
  With([steps \in {NameSteps(n)} |->
    IF \E i \in DOMAIN steps : Truthy(steps[i])
    THEN steps[CHOOSE i \in DOMAIN steps :
                 Truthy(steps[i]) /\ \A j \in 1..(i - 1) : ~Truthy(steps[j])]
    ELSE ""])

\* the name a snapshot node carries, "" for none
NameOf(node) == IF Has(node, "name") THEN node.name ELSE ""

\* C23: when several steps of the name chain yield a non-empty result for an
\* element, its snapshot node carries the result of the earliest of them.
EarliestNameWins ==
  (Answered({"snapshot"}) /\ last.ok) =>
    \A node \in TreeNodes(last.result.tree) :
      Cardinality(NonEmptySteps(refToElement[node.ref])) >= 2 =>
        NameOf(node) = FirstNonEmpty(refToElement[node.ref])

\* C24: a step that yields an empty or whitespace-only result is passed over:
\* an element for which a later step yields a non-empty result gets that
\* result as its name, and one for which no step does gets no name.
EmptyStepFallsThrough ==
  (Answered({"snapshot"}) /\ last.ok) =>
    \A node \in TreeNodes(last.result.tree) :
      With([steps \in {NameSteps(refToElement[node.ref])} |->
        \A i \in DOMAIN steps :
          (steps[i] # Null /\ \A j \in 1..i : ~Truthy(steps[j])) =>
            NameOf(node) = FirstNonEmpty(refToElement[node.ref])])

\* the role a snapshot node carries, Null for none
RoleOf(node) == IF Has(node, "role") THEN node.role ELSE Null

\* the role attribute where the element has one, the entry of the tag table
\* where it has none
ExplicitOrTable(n) == IF El(n).role # Null THEN El(n).role ELSE IMPLICIT_ROLES(n)

\* C25: the role of an element is its role attribute whenever it has one, and
\* otherwise what the tag table gives, null for a tag the table does not have:
\* a snapshot node carries that role, or none where it is null or empty.
ExplicitRoleAlwaysWins ==
  (Answered({"snapshot"}) /\ last.ok) =>
    \A node \in TreeNodes(last.result.tree) :
      With([role \in {ExplicitOrTable(refToElement[node.ref])} |->
        RoleOf(node) = IF Truthy(role) THEN role ELSE Null])

\* the nodes of a list of snapshot nodes in depth-first pre-order, each with its
\* level of nesting
RECURSIVE PreOrderNodes(_, _)
PreOrderNodes(nodes, depth) ==
  IF nodes = <<>> THEN <<>>
  ELSE <<[node |-> Head(nodes), depth |-> depth]>>
       \o (IF Has(Head(nodes), "children")
           THEN PreOrderNodes(Head(nodes).children, depth + 1) ELSE <<>>)
       \o PreOrderNodes(Tail(nodes), depth)

\* the lines of a text
LinesOf(text) == IF text = "" THEN <<>> ELSE SplitOn(text, "\n")

\* C26: the rendered text of a snapshot has exactly one line per materialized
\* node, in depth-first pre-order, each indented by two spaces per level of
\* nesting, with role and name where present and the bracketed attributes in
\* the order ref, level, checked or unchecked, disabled, required, value,
\* placeholder.
OneLinePerNode ==
  (Answered({"snapshot"}) /\ last.ok) =>
    With([nodes \in {PreOrderNodes(Pushed(last.result.tree), 0)} |->
      With([lines \in {LinesOf(last.result.text)} |->
        /\ Len(lines) = Len(nodes)
        /\ \A i \in 1..Len(nodes) : lines[i] = FormatLine(nodes[i].node, nodes[i].depth)])])

\* C27: a client constructed with no token option while the environment has
\* no FOX_PILOT_TOKEN fails with 'No authentication token found', and never
\* takes a built-in default token.
NoTokenNoClient ==
  (client.options = Null /\ client.env = Null) =>
    /\ client.thrown = "No authentication token found"
    /\ client.token # DefaultDevToken

\* the calls of send whose request went on the wire
SentCalls == {k \in DOMAIN client.calls : client.calls[k].sent}

\* the one settlement of call k is the one its cause commands
SettledAsCaused(k) ==
  With([call \in {client.calls[k]} |->
    With([o \in {call.settles[1]} |->
      CASE o.cause.kind = "message" ->
             /\ o.cause.message.id = call.id
             /\ IF o.cause.message.success
                THEN o.kind = "resolved" /\ o.value = o.cause.message.result
                ELSE /\ o.kind = "rejected"
                     /\ o.cause.message.error # NoError =>
                          /\ o.message = o.cause.message.error.message
                          /\ o.code = o.cause.message.error.code
        [] o.cause.kind = "timer" ->
             /\ o.kind = "rejected"
             /\ o.message = "Request timeout: " \o call.method
        [] o.cause.kind = "close" ->
             o.kind = "rejected" /\ o.message = "Connection closed"
        [] OTHER -> FALSE])])

\* no request is settled twice, a settled one was settled by its response, by
\* its timer or by a close, and a request is pending exactly until then
SettledAtMostOnce ==
  \A k \in SentCalls :
    /\ Len(client.calls[k].settles) <= 1
    /\ client.calls[k].settles # <<>> => SettledAsCaused(k)
    /\ client.calls[k].settles = <<>> <=> client.calls[k].id \in client.pendingRequests

\* the client but for the record of late responses
ProgramState(c) == [c EXCEPT !.late = {}]

\* a message that is no response to a pending request changes nothing
StrayMessageIgnored ==
  \A s \in DOMAIN client.sockets, message \in ResponseMessages :
    (ClientReceive(s, message) /\ message.id \notin client.pendingRequests) =>
      ProgramState(client') = ProgramState(client)

IsSent(id) == \E k \in SentCalls : client.calls[k].id = id
IsSettled(id) == \E k \in SentCalls : client.calls[k].id = id /\ Len(client.calls[k].settles) = 1

\* C29: every request the client sends is settled exactly once and eventually:
\* resolved with the result by a success response carrying its id, rejected
\* with the error's message and code by a failure response carrying its id,
\* and otherwise rejected by its timeout or by the close of a connection; a
\* response for a settled request or with an id no pending request has
\* changes nothing.
RequestsSettleOnce ==
  /\ []SettledAtMostOnce
  /\ [][StrayMessageIgnored]_vars
  /\ \A id \in RequestIds : IsSent(id) ~> IsSettled(id)

\* one request has been resolved by its response, the other rejected by its
\* timer, and a response has come for a request that was settled already
RequestsSettleOnce_witness ==
  /\ \E k \in SentCalls :
       /\ client.calls[k].settles # <<>>
       /\ client.calls[k].settles[1].kind = "resolved"
  /\ \E k \in SentCalls :
       /\ client.calls[k].settles # <<>>
       /\ client.calls[k].settles[1].cause.kind = "timer"
  /\ client.late # {}

\* only a connection that has sent the token is marked authenticated, is in
\* authenticatedClients, has a request forwarded or waits for a response
OnlyAuthenticatedForwarded ==
  /\ \A ws \in Connections : host.conns[ws].isAuthenticated => ws \in host.correctAuth
  /\ host.authenticatedClients \subseteq host.correctAuth
  /\ \A i \in DOMAIN host.out.forwarded : host.out.forwarded[i].ws \in host.correctAuth
  /\ \A waiter \in host.waiting : waiter.ws \in host.correctAuth
  /\ \A id \in DOMAIN host.pendingRequests : host.pendingRequests[id] \in host.correctAuth

\* on a connection that is not authenticated, a message other than auth is
\* answered NOT_AUTHENTICATED and an auth message with another token
\* AUTH_FAILED, and neither changes anything else
UnauthenticatedRefused ==
  \A ws \in Connections, message \in ClientMessages :
    (HostMessage(ws, message) /\ ws \notin host.correctAuth
       /\ ~(message.method = "auth" /\ message.token = host.AUTH_TOKEN)) =>
      host' = [host EXCEPT !.out =
        [forwarded |-> <<>>,
         sent |-> <<[to |-> ws,
                     message |-> HostReply(message.id, FALSE,
                                   IF message.method = "auth" THEN "AUTH_FAILED"
                                   ELSE "NOT_AUTHENTICATED",
                                   Null, Null)]>>]]

\* C28: the native host forwards no command to the extension for a connection
\* that has not sent an auth message carrying the host's token: on such a
\* connection every other message is answered NOT_AUTHENTICATED and has no
\* other effect, and an auth message that fails (AUTH_FAILED) leaves the
\* connection unauthenticated.
NoForwardBeforeAuth ==
  /\ []OnlyAuthenticatedForwarded
  /\ [][UnauthenticatedRefused]_vars

\* a command on a connection that has failed to authenticate has just been
\* answered NOT_AUTHENTICATED, while the other connection, authenticated, has a
\* request waiting for the extension
NoForwardBeforeAuth_witness ==
  /\ Len(host.out.sent) = 1
  /\ host.out.sent[1].message.code = "NOT_AUTHENTICATED"
  /\ host.out.sent[1].to \notin host.correctAuth
  /\ \E waiter \in host.waiting : waiter.ws # host.out.sent[1].to

BoundIn(reg, r) == IF r \in DOMAIN reg.map THEN reg.map[r] ELSE 0

ScopeNotFound ==
  /\ Answered({"snapshot"}) /\ ~last.ok
  /\ last.code = "ELEMENT_NOT_FOUND"

\* C31 (the claim as stated): a snapshot that fails because its scope selector
\* matches nothing leaves the registry as the call found it: the counter is
\* unchanged and every ref that resolved before resolves to the same node.
FailedSnapshotKeepsRegistry ==
  ScopeNotFound =>
    /\ refCounter = before.counter
    /\ \A r \in DOMAIN before.map : getElement(r) = before.map[r]

\* C31 (amended): a snapshot that fails because its scope selector matches
\* nothing leaves the registry empty: the counter is zero and no ref that
\* resolved before the call resolves any more.
FailedSnapshotEmptiesRegistry ==
  ScopeNotFound =>
    /\ refCounter = 0
    /\ refToElement = EmptyMap
    /\ \A r \in DOMAIN before.map : getElement(r) = 0

\* a snapshot has failed on its scope from a registry that held entries
FailedSnapshotEmptiesRegistry_witness ==
  /\ ScopeNotFound
  /\ before.counter >= 1
  /\ before.map # EmptyMap

\* a locator has failed
LocatorFailed == Answered(LocatorOps) /\ ~last.ok

\* C32: a find-by-* call that fails, with ELEMENT_NOT_FOUND or with
\* INDEX_OUT_OF_RANGE, allocates nothing: the registry and its counter are as
\* the call found them, and the allocation that follows hands out the ref
\* numbered one above the counter the failed call started from, bound beside
\* the entries that were there.
FailedLocatorAllocatesNothing ==
  LocatorFailed =>
    /\ last.code \in {"ELEMENT_NOT_FOUND", "INDEX_OUT_OF_RANGE"}
    /\ Registry = before
    /\ DOMAIN refToElement = Refs(before.counter)
    /\ \A n \in Nodes :
         /\ Allocate(Registry, n).ref = "@e" \o NumberToString(before.counter + 1)
         /\ DOMAIN Allocate(Registry, n).reg.map = Refs(before.counter + 1)

\* a locator has failed on its index, with matches at hand, in a registry that
\* held entries
FailedLocatorAllocatesNothing_witness ==
  /\ LocatorFailed
  /\ last.code = "INDEX_OUT_OF_RANGE"
  /\ Len(MatchesOf(last)) >= 1
  /\ before.counter >= 1

\* the commands that hand out refs by contract
AllocatingOps == {"snapshot"} \cup LocatorOps

\* C33 (the claim as stated): only snapshot and the four find-by-* calls change
\* the registry: a step of any other command, to its response or to a sleep,
\* leaves the entries and the counter as they were.
OnlySnapshotAndLocatorsChangeRegistry ==
  [][last'.op \notin AllocatingOps => UNCHANGED <<refToElement, refCounter>>]_vars

\* C33 (amended): only snapshot, the four find-by-* calls and a waitForSelector
\* that succeeds change the registry: a step of any other command, succeeding
\* or failing, and a waitForSelector that times out or fails, leaves the
\* entries and the counter as they were; the successful waitForSelector adds
\* the one ref it returns and changes no other entry.
OnlyAllocatorsChangeRegistry ==
  [][/\ (last'.op \notin AllocatingOps /\ ~(last'.op = "waitForSelector" /\ last'.ok))
          => UNCHANGED <<refToElement, refCounter>>
     /\ (last'.op = "waitForSelector" /\ last'.ok)
          => /\ refCounter' = refCounter + 1
             /\ DOMAIN refToElement' = DOMAIN refToElement \cup {last'.result.ref}
             /\ \A r \in DOMAIN refToElement : refToElement'[r] = refToElement[r]]_vars

\* a click has answered for a ref in a registry that held entries and holds
\* the same ones after
OnlyAllocatorsChangeRegistry_witness ==
  /\ Answered({"click"}) /\ last.ok
  /\ IsRef(last.params.selector)
  /\ before.counter >= 1
  /\ Registry = before

\* the request the extension answers in this step, if it answers one
AnsweredRequest == host.extension \ host'.extension

\* the connections a message is written to in this step
SentTo(h) == {h.out.sent[i].to : i \in DOMAIN h.out.sent}

\* C34 (the claim as stated): with several connections at once, the response
\* the host sends for an answer of the extension goes to the connection whose
\* request the extension is answering and to no other, and a request that is
\* still waiting on an open connection receives its answer, even when two
\* connections use the same request id.
AnswersReachTheirSender ==
  [][\A r \in AnsweredRequest :
       /\ \A i \in DOMAIN host'.out.sent :
            host'.out.sent[i].message.event = Null => host'.out.sent[i].to = r.ws
       /\ (r \in host.waiting /\ host.conns[r.ws].state = "open") =>
            r.ws \in SentTo(host')]_vars

\* C35: for every successful snapshot the returned refCount is the number of
\* nodes of the returned tree, the number of lines of the returned text and
\* the number of entries of the registry when the response is returned.
RefCountCountsNodesLinesEntries ==
  (Answered({"snapshot"}) /\ last.ok) =>
    /\ last.result.refCount = Cardinality(TreeNodes(last.result.tree))
    /\ last.result.refCount = Len(PreOrderNodes(Pushed(last.result.tree), 0))
    /\ last.result.refCount = Len(LinesOf(last.result.text))
    /\ last.result.refCount = Cardinality(DOMAIN refToElement)

\* the sequence number of a ref: 3 for "@e3"
RefNumber(ref) == parseInt(SubSeq(ref, 3, Len(ref)))

\* the ref numbers of a list of sibling nodes increase along the list
SiblingsIncrease(nodes) ==
  \A i, j \in 1..Len(nodes) : i < j => RefNumber(nodes[i].ref) < RefNumber(nodes[j].ref)

\* C36: snapshot refs are numbered in post-order: in every returned tree the
\* ref number of a node is greater than the ref number of every node below it,
\* and among siblings ref numbers increase in document order; so the first
\* line of the rendered text carries @e1 only when the first top-level node
\* has no descendant in the tree.
RefsArePostOrder ==
  (Answered({"snapshot"}) /\ last.ok) =>
    With([top \in {Pushed(last.result.tree)} |->
      /\ SiblingsIncrease(top)
      /\ \A n \in NodesOf(top) :
           Has(n, "children") =>
             /\ SiblingsIncrease(n.children)
             /\ \A d \in NodesOf(n.children) : RefNumber(d.ref) < RefNumber(n.ref)
      /\ (top # <<>> /\ Includes(LinesOf(last.result.text)[1], "[ref=@e1]"))
           => ~Has(top[1], "children")])

\* a snapshot has returned a node with two children of which the first has a
\* child of its own
RefsArePostOrder_witness ==
  /\ Answered({"snapshot"}) /\ last.ok
  /\ \E n \in TreeNodes(last.result.tree) :
       /\ Has(n, "children") /\ Len(n.children) >= 2
       /\ Has(n.children[1], "children")
       /\ RefNumber(n.ref) >= 3

\* C37: the locators and the projector agree on visibility: the element a
\* find-by-* call selects is one that a snapshot of the whole document, with
\* no filter and no depth limit, taken at the same moment does not prune: it
\* is visible and so is every element above it up to the body.
LocatorsSelectUnprunedElements ==
  (Answered(LocatorOps) /\ last.ok) =>
    /\ PathToRoot(last.el, Body) # {}
    /\ \A m \in PathToRoot(last.el, Body) : isElementVisible(m)

\* C38: the match list of findByRole is in document order: index i selects
\* the i-th of the visible elements that have the role, by attribute or
\* implicitly, in the order of the document.
FindByRoleInDocumentOrder ==
  (Answered({"findByRole"}) /\ last.ok) =>
    With([inOrder \in {SelectSeqBy(DocOrder,
                                   WithRole(last.params.role, last.params.name))} |->
      /\ last.params.index + 1 \in DOMAIN inOrder
      /\ last.el = inOrder[last.params.index + 1]])
====
